---- MODULE Spec2Model ----
(***************************************************************************)
(* VaultSync: the synchronisation core.                                    *)
(*                                                                         *)
(*   - GitManager.pull / GitManager.push (src/src/git/git_manager.py)      *)
(*     drive an external git working tree; the tree is modelled by the     *)
(*     record `repo`, every external command by its possible outcomes.     *)
(*   - VaultSync._handle_obsidian_startup / _handle_obsidian_shutdown /    *)
(*     _periodic_push (src/src/sync_core.py) guard themselves with the     *)
(*     plain boolean _sync_in_progress.                                    *)
(***************************************************************************)
EXTENDS Integers, Sequences, FiniteSets, TLC

(* ------------------------------ bounds --------------------------------- *)

\* commits that exist overall (on the remote branch plus local-only ones)
MaxCommits == 3

\* stash entries kept in the working tree
MaxStash == 2

\* seconds the wall clock runs for
MaxClock == 2

\* threads calling the command runner of one GitManager at the same time
MaxCallers == 2

\* calls of public operations followed in one behaviour
MaxOps == 2

\* seconds the process monitor is followed for
MaxWait == 33

\* config.backup.max_backups (retention count)
max_backups == 2

\* ProcessMonitor._check_cache_duration and _full_scan_interval, in seconds
check_cache_duration == 2
full_scan_interval == 30

(* ------------------------------- state --------------------------------- *)

VARIABLES
    repo,               \* the vault's git working tree and its remote
    lastOp,             \* the GitManager operation that returned last
    ret,                \* its boolean result
    trace,              \* the git commands it issued, in order, with outcomes
    divergence,         \* the divergence report it computed (checked = FALSE: none)
    calls,              \* parity of the number of GitManager operations returned
    pullsSinceRemoteChange, \* pull() calls returned since the remote last changed
    phases,             \* the operations the last sync() invoked, with their results
    backup,             \* BackupManager: config.enabled, _backup_in_progress, snapshot directories
    clock,              \* wall-clock seconds, the source of snapshot names
    sync_in_progress,   \* VaultSync._sync_in_progress
    initial_pull_done,  \* VaultSync._initial_pull_done
    pc,                 \* position of each caller inside a handler
    handler,            \* the handler each caller is running
    last,               \* the handler invocation that returned last
    raced,              \* some invocation read the flag between another's read and set
    setup,              \* what setup_repository works on: _git_available, origin, .gitignore
    mode,               \* config.sync.mode
    loop,               \* where run() is: off, entering, polling, interrupted, stopped
    obsidian_was_running, \* VaultSync._obsidian_was_running
    tick,               \* the step run() took last: what it observed and invoked
    entry_pull_ok,      \* the startup handler run on entry to interval mode recorded a successful pull
    command_lock,       \* GitManager._command_lock: Free or the caller whose command holds it
    cmd,                \* each caller's invocation of _run_command_sync / _run_command_async
    result,             \* the GitCommandResult each caller's last invocation returned
    monitor,            \* ProcessMonitor: _cached_pids, _last_full_scan, _last_check_result, _last_check_time
    boundary,           \* the last call of a public operation and how it came back to its caller
    setup_calls,        \* the last two calls of setup_repository: what each issued, wrote and left
    backup_calls,       \* each caller's position inside create_backup
    backup_log,         \* the last call of create_backup that returned, and what it did to the directory
    check_log           \* the last call of is_running: what it queried and answered, and the last call that was not answered from the result cache

gitVars == <<repo, lastOp, ret, trace, divergence, calls, pullsSinceRemoteChange, phases>>
gitLog == <<lastOp, ret, trace, divergence, calls, pullsSinceRemoteChange, phases>>
backupVars == <<backup, clock>>
orchVars == <<sync_in_progress, initial_pull_done, pc, handler, last, raced>>
vars == <<repo, lastOp, ret, trace, divergence, calls, pullsSinceRemoteChange, phases,
          backup, clock, sync_in_progress, initial_pull_done, pc, handler, last, raced,
          setup, mode, loop, obsidian_was_running, tick, entry_pull_ok,
          command_lock, cmd, result, monitor, boundary,
          setup_calls, backup_calls, backup_log, check_log>>

\* the state of the components an action of another component leaves alone
setupVars == <<setup>>
runVars == <<mode, loop, obsidian_was_running, tick, entry_pull_ok>>
cmdVars == <<command_lock, cmd, result>>
\* what neither the operations of GitManager nor run() touch directly
logVars == <<setup_calls, backup_calls, backup_log, check_log>>
auxVars == <<cmdVars, monitor, boundary, logVars>>
restVars == <<setupVars, runVars, auxVars>>

(* --------------------------- the git working tree ---------------------- *)
(*  gitDir   : vault/.git exists                                           *)
(*  remote   : commits on origin's branch (0: the branch does not exist)   *)
(*  base     : how many of the remote's commits the local branch contains  *)
(*  ahead    : local commits the remote does not have                      *)
(*  track    : commits known to the ref origin/<branch> (0: no such ref)   *)
(*  dirty    : uncommitted or untracked changes in the working tree        *)
(*  stash    : stash entries                                               *)
(*  rebasing : a rebase has stopped and was not aborted                    *)

FreshRepo(g) ==
    [gitDir |-> g, remote |-> 0, base |-> 0, ahead |-> 0, track |-> 0,
     dirty |-> FALSE, stash |-> 0, rebasing |-> FALSE]

\* one entry of the command log
Cmd(c, o) == [c |-> c, r |-> o]

\* DivergenceReport
NoReport == [checked |-> FALSE, diverged |-> FALSE, ahead |-> 0, behind |-> 0]
Report(a, b) == [checked |-> TRUE, diverged |-> (a > 0 /\ b > 0), ahead |-> a, behind |-> b]

\* what an operation hands back: the tree it leaves, its log, its result
Res(r, tr, d, b) == [repo |-> r, trace |-> tr, div |-> d, ret |-> b]

(* --------------------- outcomes of the external commands --------------- *)

\* git ls-remote --heads origin <branch>
LsRemoteOutcomes(r) == {IF r.remote > 0 THEN "heads" ELSE "empty", "fail"}

\* git fetch origin <branch>
FetchOutcomes(r) == {IF r.remote > 0 THEN "ok" ELSE "noref", "fail"}

\* git status --porcelain
StatusOutcomes(r) == {IF r.dirty THEN "dirty" ELSE "clean", "fail"}

\* git rev-parse <ref>: succeeds only if the ref exists
RevParseOutcomes(exists) == IF exists THEN {"ok", "fail"} ELSE {"fail"}

\* git rev-list --count
RevListOutcomes == {"ok", "fail"}

\* git stash push -u / git stash pop / git rebase --abort / git add -A
StashPushOutcomes == {"ok", "fail"}
PopOutcomes == {"ok", "conflict", "fail"}
AbortOutcomes(r) == IF r.rebasing THEN {"ok", "fail"} ELSE {"fail"}
\* git add -A: "nodiff" is a success after which the index equals HEAD
\* (the reported changes normalise away, e.g. line endings)
AddOutcomes == {"ok", "nodiff", "fail"}

\* git commit -m: "nothing" is a failure whose output says nothing to commit
CommitOutcomes == {"ok", "nothing", "fail"}

\* git pull --rebase / git pull --ff-only; "conflict" is a failure whose
\* stderr carries the word conflict.  A fast-forward needs ahead = 0.
IntegrateOutcomes(r, kind) ==
    IF r.remote = 0 THEN {"fail"}
    ELSE IF kind = "pull_ff" /\ r.ahead > 0 THEN {"conflict", "fail"}
    ELSE {"ok", "conflict", "fail"}

\* git push [-u] origin <branch>: accepted only on top of the remote's head
PushOutcomes(r) ==
    IF r.base = r.remote /\ r.base + r.ahead > 0 THEN {"ok", "fail"}
    ELSE {"rejected", "fail"}

(* ---------------------- effects of the external commands --------------- *)

Fetched(r, o) == IF o = "ok" THEN [r EXCEPT !.track = r.remote] ELSE r

StashPushed(r, o) ==
    IF o = "ok" THEN [r EXCEPT !.stash = r.stash + 1, !.dirty = FALSE] ELSE r

\* a pop that fails keeps the stash entry; a conflicting one also leaves
\* the conflicted files in the tree
StashPopped(r, o) ==
    IF o = "ok" THEN [r EXCEPT !.stash = r.stash - 1, !.dirty = TRUE]
    ELSE IF o = "conflict" THEN [r EXCEPT !.dirty = TRUE]
    ELSE r

Integrated(r, kind, o) ==
    IF o = "ok" THEN [r EXCEPT !.base = r.remote, !.track = r.remote]
    ELSE IF o = "conflict" /\ kind = "pull_rebase"
         THEN [r EXCEPT !.track = r.remote, !.rebasing = TRUE]
    ELSE r

Aborted(r, o) == IF o = "ok" THEN [r EXCEPT !.rebasing = FALSE] ELSE r

Added(r, o) == IF o = "nodiff" THEN [r EXCEPT !.dirty = FALSE] ELSE r

Committed(r, o) ==
    IF o = "ok" THEN [r EXCEPT !.ahead = r.ahead + 1, !.dirty = FALSE] ELSE r

Pushed(r, o) ==
    IF o = "ok"
    THEN [r EXCEPT !.remote = r.remote + r.ahead, !.base = r.remote + r.ahead,
                   !.track = r.remote + r.ahead, !.ahead = 0]
    ELSE r

(* ------------------------------ GitManager ----------------------------- *)

\* _verify_repository_integrity: only a missing .git is fatal; the fsck
\* result is logged and ignored
VerifyRepositoryIntegrity(r) == r.gitDir

\* the emptiness test on the output of ls-remote forgotten
RemoteBranchExistsOnSuccess(o) == o # "fail"

\* _remote_branch_exists: result.success and result.stdout.strip()
RemoteBranchExists(o) == o = "heads"

\* the success test on git status forgotten
HasLocalChangesUnlessClean(o) == o # "clean"

\* _has_local_changes: result.success and result.stdout.strip()
HasLocalChanges(o) == o = "dirty"

\* the test on rev-parse HEAD inverted
HasCommitsInverted(o) == o # "ok"

\* _has_commits: git rev-parse HEAD succeeded
HasCommits(o) == o = "ok"

\* _check_divergence: the set of <<commands issued, report>> it can produce
CheckDivergence(r) ==
    UNION { UNION {
        LET q == <<Cmd("rev_parse_local", lo), Cmd("rev_parse_remote", ro)>> IN
        IF lo # "ok" \/ ro # "ok" THEN {<<q, Report(0, 0)>>}
        ELSE IF r.ahead = 0 /\ r.base = r.track THEN {<<q, Report(0, 0)>>}
        ELSE { <<q \o <<Cmd("rev_list_ahead", ao), Cmd("rev_list_behind", bo)>>,
                 Report(IF ao = "ok" THEN r.ahead ELSE 0,
                        IF bo = "ok" THEN r.track - r.base ELSE 0)>>
               : ao \in RevListOutcomes, bo \in RevListOutcomes }
      : ro \in RevParseOutcomes(r.track > 0) }
    : lo \in RevParseOutcomes(r.base + r.ahead > 0) }

\* a failed restore of the stash never reported
PopFailureResultIgnored(o) == TRUE

\* pull(), lines 563-582: the integration succeeded
PopFailureResult(o) == o # "conflict"

PullRestore(r, tr, d, stashed) ==
    IF ~stashed THEN {Res(r, tr, d, TRUE)}
    ELSE { Res(StashPopped(r, o), Append(tr, Cmd("stash_pop", o)), d,
               IF o = "ok" THEN TRUE ELSE PopFailureResult(o))
           : o \in PopOutcomes }

\* pull(), lines 593-596 and 603-605: best-effort restore of the stash
PullBestEffortPop(r, tr, d, stashed) ==
    IF ~stashed THEN {Res(r, tr, d, FALSE)}
    ELSE { Res(StashPopped(r, o), Append(tr, Cmd("stash_pop", o)), d, FALSE)
           : o \in PopOutcomes }

\* a failure never read as a conflict
ConflictSignalIgnored(o) == FALSE

\* pull(), line 587: "conflict" in pull_result.stderr.lower()
ConflictSignal(o) == o = "conflict"

\* pull(), lines 584-607: the integration failed with outcome o
PullFailure(r, tr, d, stashed, o) ==
    IF ConflictSignal(o)
    THEN UNION { PullBestEffortPop(Aborted(r, a), Append(tr, Cmd("rebase_abort", a)),
                                   d, stashed)
                 : a \in AbortOutcomes(r) }
    ELSE PullBestEffortPop(r, tr, d, stashed)

\* rebase whatever the report says
IntegrationCommandAlwaysRebase(d) == "pull_rebase"

\* pull(), lines 545-558: the integration command chosen from the report
IntegrationCommand(d) == IF d.ahead > 0 THEN "pull_rebase" ELSE "pull_ff"

PullIntegrate(r, tr, d, stashed) ==
    LET kind == IntegrationCommand(d) IN
    UNION { IF o = "ok"
            THEN PullRestore(Integrated(r, kind, o), Append(tr, Cmd(kind, o)), d, stashed)
            ELSE PullFailure(Integrated(r, kind, o), Append(tr, Cmd(kind, o)), d, stashed, o)
            : o \in IntegrateOutcomes(r, kind) }

\* pull(), lines 521-543: stash local changes before integrating
PullStash(r, tr, d) ==
    UNION {
        IF ~HasLocalChanges(s) THEN PullIntegrate(r, Append(tr, Cmd("status", s)), d, FALSE)
        ELSE UNION {
            LET tr2 == tr \o <<Cmd("status", s), Cmd("status", s), Cmd("rev_parse_head", h)>> IN
            IF ~HasCommits(h) THEN PullIntegrate(r, tr2, d, FALSE)
            ELSE UNION {
                IF p = "ok"
                THEN PullIntegrate(StashPushed(r, p), Append(tr2, Cmd("stash_push", p)), d, TRUE)
                ELSE {Res(r, Append(tr2, Cmd("stash_push", p)), d, FALSE)}
                : p \in StashPushOutcomes }
            : h \in RevParseOutcomes(r.base + r.ahead > 0) }
        : s \in StatusOutcomes(r) }

\* up to date only when neither side has commits of its own
UpToDateStrict(d) == d.behind = 0 /\ d.ahead = 0

\* pull(), lines 510-519: behind = 0 is "already up to date"
UpToDate(d) == d.behind = 0

PullDiverge(r, tr) ==
    UNION { LET tr2 == tr \o c[1]
                d == c[2] IN
            IF UpToDate(d) THEN {Res(r, tr2, d, TRUE)} ELSE PullStash(r, tr2, d)
            : c \in CheckDivergence(r) }

\* pull(), lines 496-508: fetch; a missing remote ref is not a failure
PullFetch(r, tr) ==
    UNION { LET tr2 == Append(tr, Cmd("fetch", f)) IN
            IF f = "ok" THEN PullDiverge(Fetched(r, f), tr2)
            ELSE {Res(r, tr2, NoReport, f = "noref")}
            : f \in FetchOutcomes(r) }

\* GitManager.pull: every <<tree, log, report, result>> it can end with
Pull(r) ==
    IF ~VerifyRepositoryIntegrity(r) THEN {Res(r, <<>>, NoReport, FALSE)}
    ELSE UNION { LET tr == <<Cmd("fsck", "any"), Cmd("ls_remote", l)>> IN
                 IF ~RemoteBranchExists(l) THEN {Res(r, tr, NoReport, TRUE)}
                 ELSE PullFetch(r, tr)
                 : l \in LsRemoteOutcomes(r) }

\* push(), lines 704-762: the network push; every failure kind returns False
PushCommand(firstPush) == IF firstPush THEN "push_u" ELSE "push"

PushSend(r, tr, d, firstPush) ==
    { Res(Pushed(r, o), Append(tr, Cmd(PushCommand(firstPush), o)), d, o = "ok")
      : o \in PushOutcomes(r) }

\* push(), lines 687-702: the remote has newer commits, rebase onto them first
PushPreSync(r, tr, d) ==
    UNION { LET r2 == Integrated(r, "pull_rebase", o)
                tr2 == Append(tr, Cmd("pull_rebase", o)) IN
            IF o # "ok" THEN {Res(r2, tr2, d, FALSE)}
            ELSE PushSend(r2, tr2, d, FALSE)
            : o \in IntegrateOutcomes(r, "pull_rebase") }

\* the pre-push sync taken only from two commits behind
NeedsPreSyncOffByOne(d) == d.behind > 1

\* push(), line 687
NeedsPreSync(d) == d.behind > 0

\* push(), lines 672-702: look at the remote before pushing
PushCheckRemote(r, tr) ==
    UNION {
        LET tr2 == Append(tr, Cmd("ls_remote", l)) IN
        IF ~RemoteBranchExists(l) THEN PushSend(r, tr2, NoReport, TRUE)
        ELSE UNION {
            LET tr3 == Append(tr2, Cmd("fetch", f)) IN
            IF f # "ok" THEN PushSend(r, tr3, NoReport, FALSE)
            ELSE UNION {
                IF NeedsPreSync(c[2]) THEN PushPreSync(Fetched(r, f), tr3 \o c[1], c[2])
                ELSE PushSend(Fetched(r, f), tr3 \o c[1], c[2], FALSE)
                : c \in CheckDivergence(Fetched(r, f)) }
            : f \in FetchOutcomes(r) }
        : l \in LsRemoteOutcomes(r) }

\* push(), lines 655-670: one commit; "nothing to commit" is a success
CommitFailureResult(o) == o = "nothing"

PushCommit(r, tr) ==
    UNION { LET tr2 == Append(tr, Cmd("commit", o)) IN
            IF o = "ok" THEN PushCheckRemote(Committed(r, o), tr2)
            ELSE {Res(r, tr2, NoReport, CommitFailureResult(o))}
            : o \in CommitOutcomes }

\* push(), lines 635-653: stage everything, re-read the status
PushStage(r, tr) ==
    UNION { LET tr2 == Append(tr, Cmd("add", a)) IN
            IF a = "fail" THEN {Res(r, tr2, NoReport, FALSE)}
            ELSE UNION { LET tr3 == Append(tr2, Cmd("status", s)) IN
                         IF s # "dirty" THEN {Res(Added(r, a), tr3, NoReport, TRUE)}
                         ELSE PushCommit(Added(r, a), tr3)
                         : s \in StatusOutcomes(Added(r, a)) }
            : a \in AddOutcomes }

\* GitManager.push: every <<tree, log, report, result>> it can end with
Push(r) ==
    IF ~VerifyRepositoryIntegrity(r) THEN {Res(r, <<>>, NoReport, FALSE)}
    ELSE UNION { LET tr == <<Cmd("fsck", "any"), Cmd("status", s)>> IN
                 IF ~HasLocalChanges(s) THEN {Res(r, tr, NoReport, TRUE)}
                 ELSE PushStage(r, Append(tr, Cmd("status", s)))
                 : s \in StatusOutcomes(r) }

(* ------------------------- GitManager operations ----------------------- *)

\* a vault as the program can find it: a repository or not, on a remote
\* whose branch has n commits
FoundRepo(g, n) == [FreshRepo(g) EXCEPT !.remote = n]

InitGitIn(R) ==
    /\ repo \in R
    /\ lastOp = "none"
    /\ ret = TRUE
    /\ trace = <<>>
    /\ divergence = NoReport
    /\ calls = 0
    /\ pullsSinceRemoteChange = 0
    /\ phases = <<>>

InitGit == InitGitIn({FreshRepo(g) : g \in BOOLEAN})

Returned(op, x) ==
    /\ repo' = x.repo
    /\ lastOp' = op
    /\ ret' = x.ret
    /\ trace' = x.trace
    /\ divergence' = x.div
    /\ calls' = 1 - calls

\* room for one more commit or stash entry
Room(r) == r.remote + r.ahead + (IF r.dirty THEN 1 ELSE 0) < MaxCommits

DoPull ==
    /\ repo.stash < MaxStash
    /\ \E x \in Pull(repo) : Returned("pull", x)
    /\ pullsSinceRemoteChange' = IF pullsSinceRemoteChange < 2
                                 THEN pullsSinceRemoteChange + 1 ELSE 2
    /\ phases' = <<>>
    /\ UNCHANGED <<backupVars, orchVars, restVars>>

DoPush ==
    /\ \E x \in Push(repo) : Returned("push", x)
    /\ pullsSinceRemoteChange' = IF repo'.remote # repo.remote THEN 0
                                 ELSE pullsSinceRemoteChange
    /\ phases' = <<>>
    /\ UNCHANGED <<backupVars, orchVars, restVars>>

\* somebody else pushes a commit to the remote branch
RemoteCommit ==
    /\ Room(repo)
    /\ repo' = [repo EXCEPT !.remote = repo.remote + 1]
    /\ pullsSinceRemoteChange' = 0
    /\ UNCHANGED <<lastOp, ret, trace, divergence, calls, phases>>
    /\ UNCHANGED <<backupVars, orchVars, restVars>>

\* the user edits a note in the vault
LocalEdit ==
    /\ repo.gitDir
    /\ ~repo.dirty
    /\ Room(repo)
    /\ repo' = [repo EXCEPT !.dirty = TRUE]
    /\ UNCHANGED gitLog
    /\ UNCHANGED <<backupVars, orchVars, restVars>>

\* the user resolves by hand what an operation left behind
ManualResolve ==
    /\ repo.stash > 0 \/ repo.rebasing
    /\ repo' = [repo EXCEPT !.stash = 0, !.rebasing = FALSE]
    /\ UNCHANGED gitLog
    /\ UNCHANGED <<backupVars, orchVars, restVars>>

\* one operation invoked by sync() and what it returned
Phase(op, b) == [op |-> op, ret |-> b]

\* push() invoked whatever pull() returned
SyncContinuesAlways(pullRet) == TRUE

\* sync(), line 777: if not self.pull(): return False
SyncContinues(pullRet) == pullRet

\* GitManager.sync: pull() then push(), short-circuiting on a failed pull
Sync(r) ==
    UNION { IF ~SyncContinues(p.ret)
            THEN {[repo |-> p.repo, trace |-> p.trace, div |-> p.div, ret |-> FALSE,
                   phases |-> <<Phase("pull", p.ret)>>]}
            ELSE { [repo |-> q.repo, trace |-> p.trace \o q.trace, div |-> q.div, ret |-> q.ret,
                    phases |-> <<Phase("pull", p.ret), Phase("push", q.ret)>>]
                   : q \in Push(p.repo) }
            : p \in Pull(r) }

DoSync ==
    /\ repo.stash < MaxStash
    /\ \E x \in Sync(repo) : Returned("sync", x) /\ phases' = x.phases
    /\ pullsSinceRemoteChange' = IF repo'.remote # repo.remote THEN 0
                                 ELSE IF pullsSinceRemoteChange < 2
                                 THEN pullsSinceRemoteChange + 1 ELSE 2
    /\ UNCHANGED <<backupVars, orchVars, restVars>>

(* ----------------------------- BackupManager --------------------------- *)

InitBackup ==
    /\ backup \in {[enabled |-> e, in_progress |-> FALSE, snapshots |-> {}, others |-> {}]
                   : e \in BOOLEAN}
    /\ clock = 0

\* an entry of the backup directory: whether its name starts with
\* vault_backup_, and the rest of the name; the rest is a timestamp
\* (0, 1, ...) or, below 0, a text that is not one
Entry(p, s) == [prefixed |-> p, suffix |-> s]

\* snapshots holds the timestamps t of the directories vault_backup_<t>,
\* others the remaining entries
Listing(b) == {Entry(TRUE, t) : t \in b.snapshots} \cup b.others

\* a parse that accepts every name
ParsesAnything(s) == TRUE

\* line 244: datetime.strptime raises ValueError on anything but a timestamp
Parses(s) == s >= 0

\* lines 237-250: the timestamps of the entries pruning considers
Timestamps(L) == {e.suffix : e \in {x \in L : x.prefixed /\ Parses(x.suffix)}}

Min(S) == CHOOSE x \in S : \A y \in S : x <= y

\* a loop that keeps one snapshot more than configured
TooManyOffByOne(n) == n > max_backups + 1

\* line 255: while len(backups) > self.config.max_backups
TooMany(n) == n > max_backups

\* _cleanup_old_backups: drop the oldest while more than max_backups remain
RECURSIVE CleanupOldBackups(_)
CleanupOldBackups(S) ==
    IF TooMany(Cardinality(S)) THEN CleanupOldBackups(S \ {Min(S)}) ELSE S

\* the timestamps the loop of _cleanup_old_backups pops
Popped(L) == Timestamps(L) \ CleanupOldBackups(Timestamps(L))

\* line 261: shutil.rmtree(..., ignore_errors=True) removes the directory
\* or silently leaves it; R is what really went away
Removed(b, R) ==
    [b EXCEPT !.snapshots = @ \ R, !.others = @ \ {Entry(TRUE, t) : t \in R}]

\* shutil.copytree into vault_backup_<timestamp>: it refuses an existing
\* destination, and an error part-way leaves what was copied so far
CopyOutcomes(b, now) == IF now \in b.snapshots THEN {"exists"} ELSE {"ok", "error"}

\* what a call of create_backup ends with: the manager, the result, how it
\* ended, and the timestamps pruning popped and really removed
BackupRes(b, ok, how, P, R) ==
    [backup |-> b, ret |-> ok, how |-> how, popped |-> P, removed |-> R]

\* create_backup, lines 57-104: the body run with the flag set
BackupBody(b, now) ==
    {BackupRes(b, FALSE, "missing", {}, {})}    \* the vault path does not exist
    \cup UNION {
       IF c = "exists" THEN {BackupRes(b, FALSE, "exists", {}, {})}
       ELSE LET copied == [b EXCEPT !.snapshots = @ \cup {now}] IN
            IF c = "error"
            THEN {BackupRes(copied, FALSE, "copy_error", {}, {}),
                  BackupRes(b, FALSE, "copy_error", {}, {})}
            ELSE \* _verify_backup failed: the copy is removed, errors ignored
                 {BackupRes(b, FALSE, "unverified", {}, {}),
                  BackupRes(copied, FALSE, "unverified", {}, {})}
                 \cup
                 \* _verify_backup passed: _cleanup_old_backups
                 { BackupRes(Removed(copied, R), TRUE, "ok", Popped(Listing(copied)), R)
                   : R \in SUBSET Popped(Listing(copied)) }
       : c \in CopyOutcomes(b, now) }

\* BackupManager.create_backup called at time now, from the only thread
\* using the manager: everything it can end with
CreateBackup(b, now) ==
    IF ~b.enabled THEN {BackupRes(b, TRUE, "disabled", {}, {})}
    ELSE IF b.in_progress THEN {BackupRes(b, FALSE, "busy", {}, {})}
    ELSE BackupBody(b, now)

Tick ==
    /\ clock < MaxClock
    /\ clock' = clock + 1
    /\ UNCHANGED <<gitVars, backup, orchVars, restVars>>

\* the two sources of handler invocations and what each invokes
Callers == {"monitor", "scheduler"}
HandlersOf(t) == IF t = "monitor" THEN {"startup", "shutdown"} ELSE {"periodic"}

\* one operation a handler called and what it returned
Step(op, b) == [op |-> op, ret |-> b]

Invocation(h, o, sent, called) ==
    [handler |-> h, outcome |-> o, sent |-> sent, called |-> called]
NoInvocation == Invocation("none", "none", <<>>, <<>>)

InitOrchIdle ==
    /\ sync_in_progress = FALSE
    /\ initial_pull_done = FALSE
    /\ pc = [t \in Callers |-> "idle"]
    /\ handler = [t \in Callers |-> "none"]
    /\ last = NoInvocation
    /\ raced = FALSE

\* GitManager.__init__: nothing is known about git yet; the vault has no
\* origin and no .gitignore
NoUrl == <<>>
FreshSetup == [git_available |-> "unknown", origin |-> NoUrl, gitignore |-> "none"]

InitSetupFresh == setup = FreshSetup

\* one step of run(): the presence it observed, the presence recorded by
\* the check before, the handlers it invoked, whether it made the final
\* push, and the handler invocation that had returned last before it
TickRec(kind, observed, was, invoked, finalPush, prev) ==
    [kind |-> kind, observed |-> observed, was |-> was, invoked |-> invoked,
     finalPush |-> finalPush, prev |-> prev]
NoTick == TickRec("none", FALSE, FALSE, <<>>, FALSE, [handler |-> "none", outcome |-> "none"])

\* VaultSync.__init__, lines 44-46, before run() is called
InitRunOff ==
    /\ loop = "off"
    /\ obsidian_was_running = FALSE
    /\ tick = NoTick
    /\ entry_pull_ok = FALSE

\* the callers of the command runner and what an invocation is doing:
\* variant "sync" or "async"; pc of the thread running _run_command_sync:
\* "acquire" (at the with statement), "run" (the command is executing);
\* wait of an asynchronous caller: "result" (in future.result) or
\* "shutdown" (timed out, leaving the executor's with block)
CmdCallers == 1..MaxCallers
Free == 0
IdleCmd == [variant |-> "none", pc |-> "idle", wait |-> "none"]
NoResult == [returncode |-> -1, success |-> FALSE, returned |-> FALSE,
             ended |-> "none", async_timeout |-> FALSE]

\* GitManager.__init__, line 48
InitCmdIdle ==
    /\ command_lock = Free
    /\ cmd = [c \in CmdCallers |-> IdleCmd]
    /\ result = [c \in CmdCallers |-> NoResult]

\* process ids the watched program can run under
Pids == {1, 2}

\* time.time() when the program starts: further from 0 than both intervals
StartTime == full_scan_interval + 1

\* ProcessMonitor.__init__, lines 18-23
InitMonitor ==
    monitor = [cached_pids |-> {}, last_full_scan |-> 0,
               last_check_result |-> FALSE, last_check_time |-> 0]

\* a call of a public operation: which one, what went wrong inside it,
\* whether it returned to its caller and with what
Call(op, fault, returned, b, n) ==
    [op |-> op, fault |-> fault, returned |-> returned, ret |-> b, n |-> n]

InitBoundary == boundary = Call("none", "none", TRUE, TRUE, 0)

\* a call of setup_repository: its result, the commands it issued, whether
\* git remote get-url answered, whether it wrote .gitignore, the remote and
\* .gitignore it left, and the steps of it that failed
NoSetupCall ==
    [made |-> FALSE, ret |-> FALSE, issued |-> {}, answered |-> FALSE, wrote |-> FALSE,
     origin |-> NoUrl, gitignore |-> "none", failed |-> {}]

BackupCallers == 1..MaxCallers
IdleBackupCall == [pc |-> "idle", stamp |-> 0]
NoBackupCall ==
    [caller |-> 0, how |-> "none", ret |-> FALSE, stamp |-> 0, inflight |-> FALSE,
     before |-> {}, after |-> {}, popped |-> {}, removed |-> {}]
NoCheck ==
    [made |-> FALSE, ret |-> FALSE, queried |-> FALSE, scanned |-> FALSE, error |-> "none",
     at |-> 0, survivors |-> {}, found |-> {}, cached |-> {}, since_scan |-> 0,
     evaluated |-> FALSE, eval_at |-> 0, eval_ret |-> FALSE]

InitLogs ==
    /\ setup_calls = <<NoSetupCall, NoSetupCall>>
    /\ backup_calls = [c \in BackupCallers |-> IdleBackupCall]
    /\ backup_log = NoBackupCall
    /\ check_log = NoCheck

InitAux == InitCmdIdle /\ InitMonitor /\ InitBoundary /\ InitLogs

\* the other components as their constructors leave them
InitRest == InitSetupFresh /\ InitRunOff /\ mode = "on_close" /\ InitAux

InitG == InitGit /\ InitBackup /\ backup.enabled /\ InitOrchIdle /\ InitRest

NextGit == DoPull \/ DoPush \/ RemoteCommit \/ LocalEdit \/ ManualResolve

SpecGit == InitG /\ [][NextGit]_vars

NextSync == DoSync \/ LocalEdit

SpecSync == InitG /\ [][NextSync]_vars

(* ------------------------------ VaultSync ------------------------------ *)
(* A handler is  if flag: return ; flag = True ; try: body                 *)
(*               except Exception: notify failure ; finally: flag = False  *)
(* Handlers are invoked from two places: the presence check of the poll    *)
(* loop (startup, shutdown) and the job registered with the scheduler      *)
(* (periodic).  The read of the flag (Enter) and its assignment (SetFlag)  *)
(* are separate steps of an invocation.                                    *)

\* where something unexpected is raised inside the try block
FaultPoints(h) ==
    IF h = "startup" THEN {"start", "after_backup", "in_send", "in_log"}
    ELSE {"start", "in_send", "in_log"}
FaultKinds == {"exception", "interrupt"}

\* what the try/except leaves: the trees, the result, the notifications
\* sent, the operations called
Ran(r, b, o, sent, ipd, called) ==
    [repo |-> r, backup |-> b, outcome |-> o, sent |-> sent, initial_pull_done |-> ipd,
     called |-> called]

\* an except clause that only logs
SentOnExceptionNothing(sent) == sent

\* lines 83, 116, 149: self.notification.send(False, ...) in the except clause
SentOnException(sent) == Append(sent, FALSE)

\* except Exception (lines 80-83): one failure notification; a
\* KeyboardInterrupt is not an Exception and passes through to the caller
Raised(r, b, k, sent, ipd, called) ==
    IF k = "exception" THEN Ran(r, b, "raised", SentOnException(sent), ipd, called)
    ELSE Ran(r, b, "interrupted", sent, ipd, called)

\* the pull given up when the snapshot failed
PullAfterBackupOnlyOnSuccess(backupRet) == backupRet

\* lines 63-68: a failed snapshot is logged, the pull follows either way
PullAfterBackup(backupRet) == TRUE

\* _handle_obsidian_startup, lines 59-83
StartupBody(r, b, now, ipd) ==
    { Raised(r, b, k, <<>>, ipd, <<>>) : k \in FaultKinds }
    \cup UNION {
        LET c1 == <<Step("backup", bk.ret)>> IN
        { Raised(r, bk.backup, k, <<>>, ipd, c1) : k \in FaultKinds }
        \cup
        IF ~PullAfterBackup(bk.ret) THEN {Ran(r, bk.backup, "failed", <<FALSE>>, FALSE, c1)}
        ELSE UNION {
            LET c2 == Append(c1, Step("pull", p.ret)) IN
            { Ran(p.repo, bk.backup, IF p.ret THEN "ok" ELSE "failed", <<p.ret>>, p.ret, c2) }
            \cup { Raised(p.repo, bk.backup, k, <<p.ret>>, ipd, c2) : k \in FaultKinds }
            \cup { Raised(p.repo, bk.backup, k, <<p.ret>>, p.ret, c2) : k \in FaultKinds }
            : p \in Pull(r) }
        : bk \in CreateBackup(b, now) }

\* _handle_obsidian_shutdown, lines 99-116, and _periodic_push, lines 132-149
PushBody(r, b, ipd) ==
    { Raised(r, b, k, <<>>, ipd, <<>>) : k \in FaultKinds }
    \cup UNION {
        LET c1 == <<Step("push", p.ret)>> IN
        { Ran(p.repo, b, IF p.ret THEN "ok" ELSE "failed", <<p.ret>>, ipd, c1) }
        \cup { Raised(p.repo, b, k, <<p.ret>>, ipd, c1) : k \in FaultKinds }
        : p \in Push(r) }

HandlerBody(h, r, b, now, ipd) ==
    IF h = "startup" THEN StartupBody(r, b, now, ipd) ELSE PushBody(r, b, ipd)

\* finally: self._sync_in_progress = False (lines 85-86, 118-119, 151-152)
\* the flag cleared at the end of the try block instead of in finally
FlagAfterNoFinally(outcome) == outcome \in {"raised", "interrupted"}

FlagAfter(outcome) == FALSE

\* lines 53, 93, 126: if self._sync_in_progress
\* the guard dropped
SkipsNever(flag) == FALSE

Skips(flag) == flag

\* the skipping invocation clearing the flag on its way out
FlagAfterSkipCleared(flag) == FALSE

\* lines 53-55, 93-95, 126-128: the early return leaves the flag alone
FlagAfterSkip(flag) == flag

\* lines 53-55, 93-95, 126-128: the guard, read on entry
Enter(t, h) ==
    /\ pc[t] = "idle"
    /\ IF Skips(sync_in_progress)
       THEN /\ last' = Invocation(h, "skipped", <<>>, <<>>)
            /\ sync_in_progress' = FlagAfterSkip(sync_in_progress)
            /\ UNCHANGED <<pc, handler, raced>>
       ELSE /\ pc' = [pc EXCEPT ![t] = "entered"]
            /\ handler' = [handler EXCEPT ![t] = h]
            /\ raced' = (raced \/ \E u \in Callers \ {t} : pc[u] = "entered")
            /\ UNCHANGED <<last, sync_in_progress>>
    /\ UNCHANGED <<gitVars, backupVars, initial_pull_done, restVars>>

\* lines 57, 97, 130
SetFlag(t) ==
    /\ pc[t] = "entered"
    /\ sync_in_progress' = TRUE
    /\ pc' = [pc EXCEPT ![t] = "body"]
    /\ UNCHANGED <<gitVars, backupVars, initial_pull_done, handler, last, raced, restVars>>

\* the try/except/finally block, run to its end
Body(t) ==
    /\ pc[t] = "body"
    /\ handler[t] = "startup" => repo.stash < MaxStash
    /\ \E x \in HandlerBody(handler[t], repo, backup, clock, initial_pull_done) :
          /\ repo' = x.repo
          /\ backup' = x.backup
          /\ initial_pull_done' = x.initial_pull_done
          /\ sync_in_progress' = FlagAfter(x.outcome)
          /\ last' = Invocation(handler[t], x.outcome, x.sent, x.called)
    /\ pc' = [pc EXCEPT ![t] = "idle"]
    /\ handler' = [handler EXCEPT ![t] = "none"]
    /\ UNCHANGED <<gitLog, clock, raced, restVars>>

InitH == InitGit /\ InitBackup /\ InitOrchIdle /\ InitRest

NextHandlers ==
    \/ \E t \in Callers : \E h \in HandlersOf(t) : Enter(t, h)
    \/ \E t \in Callers : SetFlag(t)
    \/ \E t \in Callers : Body(t)
    \/ LocalEdit

SpecHandlers == InitH /\ [][NextHandlers]_vars

(* ======================= properties of the handlers ==================== *)

InBody == {t \in Callers : pc[t] = "body"}

\* C1: the in-flight flag is never left set: whenever it is set, a handler
\* is inside its try block; every way a handler ends (success, failure,
\* exception, interrupt) clears it.
C1_FlagNeverStuck == sync_in_progress => InBody # {}

C1_Witness ==
    /\ last.outcome = "raised" /\ ~sync_in_progress
    /\ \A t \in Callers : pc[t] = "idle"

\* C2 (as claimed): in every interleaving of handler invocations at most
\* one handler is inside its try block.
C2_MutualExclusion == Cardinality(InBody) <= 1

\* C2 (amended): at most one handler is inside its try block in every
\* interleaving in which no invocation reads the flag between another
\* invocation's read and its assignment of the flag.
C2_MutualExclusionUnlessRaced == ~raced => Cardinality(InBody) <= 1

C2_Witness ==
    /\ ~raced /\ last.outcome = "skipped" /\ InBody # {}

\* C15: a startup handler never calls pull() before create_backup(), and
\* one that is not cut short by an exception or an interrupt calls
\* create_backup() and then pull(), whatever create_backup() returned.
C15_BackupThenPull ==
    last.handler = "startup" =>
      /\ \A i \in DOMAIN last.called :
            last.called[i].op = "pull" => \E j \in 1..(i - 1) : last.called[j].op = "backup"
      /\ last.outcome \in {"ok", "failed"}
            => /\ Len(last.called) = 2
               /\ last.called[1].op = "backup"
               /\ last.called[2].op = "pull"

C15_Witness ==
    /\ last.handler = "startup" /\ last.outcome = "ok"
    /\ last.called = <<Step("backup", FALSE), Step("pull", TRUE)>>

\* C18: while the in-flight flag is set, no invocation of a handler enters
\* its body, and an invocation made then returns at once: it calls no
\* backup, pull or push, sends no notification, changes neither the vault
\* nor the snapshots, and leaves the flag set.
C18_SkipLeavesEverything ==
    [][ sync_in_progress =>
          /\ \A t \in Callers : pc[t] = "idle" => pc'[t] = "idle"
          /\ (\A t \in Callers : pc'[t] = "body" <=> pc[t] = "body") => sync_in_progress'
          /\ (last' # last /\ last'.outcome = "skipped")
                => /\ last'.sent = <<>> /\ last'.called = <<>>
                   /\ UNCHANGED <<repo, backup, pc, handler, initial_pull_done>>
      ]_vars

C18_Witness ==
    /\ last = Invocation("periodic", "skipped", <<>>, <<>>)
    /\ sync_in_progress
    /\ \E t \in Callers : pc[t] = "body" /\ handler[t] = "startup"

(* ===================== properties of pull() and push() ================= *)

\* a step in which pull() / push() returns
PullReturns == calls' # calls /\ lastOp' = "pull"
PushReturns == calls' # calls /\ lastOp' = "push"

\* positions of the log at which command c was issued
At(c) == {i \in DOMAIN trace : trace[i].c = c}
Issued(c) == At(c) # {}
IssuedWith(c, o) == \E i \in At(c) : trace[i].r = o
IssuedAny(S) == \E i \in DOMAIN trace : trace[i].c \in S

IntegrationCmds == {"pull_rebase", "pull_ff", "pull_merge"}
StashCmds == {"stash_push", "stash_pop", "stash_drop", "stash_clear"}
PushCmds == {"push", "push_u"}
IntegrationAt == {i \in DOMAIN trace : trace[i].c \in IntegrationCmds}

\* C3: push() never issues the network push on a known-stale base: when
\* the pre-push fetch succeeded and the report says behind > 0, a
\* pull --rebase is issued before any push command, and when that rebase
\* fails push() returns False and no push command is issued at all.
C3_PushNeverOnStaleBase ==
    (lastOp = "push" /\ IssuedWith("fetch", "ok") /\ divergence.checked /\ divergence.behind > 0)
    => /\ Issued("pull_rebase")
       /\ \A i \in DOMAIN trace : trace[i].c \in PushCmds
             => \E j \in 1..(i - 1) : trace[j] = Cmd("pull_rebase", "ok")
       /\ ~IssuedWith("pull_rebase", "ok") => (ret = FALSE /\ ~IssuedAny(PushCmds))

C3_Witness ==
    /\ lastOp = "push" /\ IssuedWith("fetch", "ok")
    /\ divergence.checked /\ divergence.behind > 0
    /\ IssuedWith("pull_rebase", "conflict") /\ ret = FALSE

C5_StashNeverDropped ==
    [][ /\ (PullReturns
            /\ (\E i \in DOMAIN trace' : trace'[i].c \in IntegrationCmds /\ trace'[i].r = "ok")
            /\ (\E i \in DOMAIN trace' : trace'[i] = Cmd("stash_pop", "conflict")))
           => (ret' = FALSE /\ repo'.stash = repo.stash + 1)
        /\ \A i \in DOMAIN trace' : trace'[i].c \notin {"stash_drop", "stash_clear"}
        /\ repo'.stash < repo.stash => calls' = calls ]_vars

C5_Witness ==
    /\ lastOp = "pull" /\ ret = FALSE /\ repo.stash > 0
    /\ \E i \in IntegrationAt : trace[i].r = "ok"
    /\ IssuedWith("stash_pop", "conflict")

\* C6 (as claimed): every pull --rebase that stops on a conflict, in pull()
\* or in push()'s pre-push sync, is followed by a rebase --abort before the
\* operation returns.
C6_RebaseAlwaysAborted ==
    lastOp \in {"pull", "push"} =>
      \A i \in DOMAIN trace : trace[i] = Cmd("pull_rebase", "conflict")
          => \E j \in (i + 1)..Len(trace) : trace[j].c = "rebase_abort"

\* C7: the integration command is a function of the divergence report:
\* behind = 0: success, no stash and no integration command; behind > 0 and
\* ahead = 0: only pull --ff-only; behind > 0 and ahead > 0: only
\* pull --rebase; exactly one integration command unless the stash push
\* failed; never a merging pull.
C7_StrategyFromReport ==
    (lastOp = "pull" /\ divergence.checked) =>
      /\ divergence.behind = 0
            => (ret = TRUE /\ IntegrationAt = {} /\ ~IssuedAny(StashCmds))
      /\ divergence.behind > 0
            => /\ \A i \in IntegrationAt :
                    trace[i].c = (IF divergence.ahead = 0 THEN "pull_ff" ELSE "pull_rebase")
               /\ Cardinality(IntegrationAt) = (IF IssuedWith("stash_push", "fail") THEN 0 ELSE 1)
      /\ ~Issued("pull_merge")

C7_Witness ==
    /\ lastOp = "pull" /\ divergence.checked
    /\ divergence.behind > 0 /\ divergence.ahead > 0
    /\ IssuedWith("pull_rebase", "ok") /\ ret = TRUE

\* C8: a pull() on a repository whose remote has no branch of the configured
\* name returns True having issued only the integrity check and the remote
\* query: no fetch, no stash, no integration command.
C8_NoRemoteBranchIsSuccess ==
    [][ (PullReturns /\ repo.gitDir /\ repo.remote = 0)
        => /\ ret' = TRUE
           /\ \A i \in DOMAIN trace' : trace'[i].c \in {"fsck", "ls_remote"} ]_vars

C8_Witness ==
    /\ lastOp = "pull" /\ repo.gitDir /\ repo.remote = 0
    /\ trace = <<Cmd("fsck", "any"), Cmd("ls_remote", "empty")>> /\ ret = TRUE

\* C9 (as claimed): on a set-up repository, the second and every later
\* pull() since the remote last changed returns True and issues no stash,
\* rebase or fast-forward command.
NoStashOrIntegration == ~IssuedAny(StashCmds) /\ IntegrationAt = {}

C9_SecondPullIsNoOp ==
    (lastOp = "pull" /\ repo.gitDir /\ pullsSinceRemoteChange >= 2)
    => (ret = TRUE /\ NoStashOrIntegration)

\* C9 (amended): a pull() whose integration command succeeds leaves the
\* local branch containing every commit of the remote; a pull() that starts
\* in that situation issues no stash, rebase or fast-forward command and
\* returns True unless its fetch fails.
C9_PullAfterIntegrationIsNoOp ==
    [][ PullReturns =>
          /\ (\E i \in DOMAIN trace' : trace'[i].c \in IntegrationCmds /\ trace'[i].r = "ok")
                => repo'.base = repo'.remote
          /\ (repo.gitDir /\ repo.base = repo.remote)
                => /\ \A i \in DOMAIN trace' :
                          trace'[i].c \notin (StashCmds \cup IntegrationCmds)
                   /\ ret' = TRUE \/ (\E i \in DOMAIN trace' : trace'[i] = Cmd("fetch", "fail"))
      ]_vars

C9_Witness ==
    /\ lastOp = "pull" /\ pullsSinceRemoteChange >= 2
    /\ repo.remote > 0 /\ repo.base = repo.remote /\ repo.ahead > 0
    /\ divergence.checked /\ divergence.behind = 0
    /\ ret = TRUE /\ NoStashOrIntegration

\* C10: a push() on a tree without uncommitted or untracked changes returns
\* True having issued no add, commit, fetch or push command; a push() whose
\* staging leaves nothing to commit returns True without a commit or a push.
C10_NothingToPush ==
    [][ PushReturns =>
          /\ (repo.gitDir /\ ~repo.dirty)
                => /\ ret' = TRUE
                   /\ \A i \in DOMAIN trace' :
                          trace'[i].c \notin ({"add", "commit", "fetch"} \cup PushCmds)
          /\ (\E i \in DOMAIN trace' : /\ trace'[i].c = "add" /\ trace'[i].r # "fail"
                                       /\ trace'[i + 1].c = "status" /\ trace'[i + 1].r # "dirty")
                => /\ ret' = TRUE
                   /\ \A i \in DOMAIN trace' : trace'[i].c \notin ({"commit"} \cup PushCmds)
      ]_vars

C10_Witness ==
    /\ lastOp = "push" /\ repo.gitDir /\ ~repo.dirty /\ ret = TRUE
    /\ trace = <<Cmd("fsck", "any"), Cmd("status", "clean")>>

\* C11 (as claimed): push() issues the set-upstream push only when the
\* branch has no remote counterpart, a plain push whenever the remote
\* branch exists, and at most one of the two forms per invocation.
C11_UpstreamOnlyOnFirstPush ==
    [][ PushReturns =>
          /\ \A i \in DOMAIN trace' :
                /\ trace'[i].c = "push_u" => repo.remote = 0
                /\ trace'[i].c = "push" => repo.remote > 0
          /\ Cardinality({i \in DOMAIN trace' : trace'[i].c \in PushCmds}) <= 1
      ]_vars

(* ============================ properties of sync() ===================== *)

\* C12: sync() invokes pull() first; it invokes push() exactly when pull()
\* returned True, never after a pull() that returned False; it returns
\* True exactly when both pull() and push() returned True.
C12_SyncShortCircuits ==
    lastOp = "sync" =>
      /\ Len(phases) \in {1, 2}
      /\ phases[1].op = "pull"
      /\ Len(phases) = 2 <=> phases[1].ret
      /\ Len(phases) = 2 => phases[2].op = "push"
      /\ ret <=> (Len(phases) = 2 /\ phases[1].ret /\ phases[2].ret)

C12_Witness ==
    /\ lastOp = "sync" /\ ret = FALSE
    /\ phases = <<Phase("pull", FALSE)>>
    /\ IssuedWith("fetch", "fail")

(* ====================== GitManager.setup_repository ==================== *)
(* A URL is the sequence of its pieces; "://" and "@" are pieces of their  *)
(* own, as _extract_repo_from_url splits on them.                          *)

\* ConfigManager._build_git_remote: https://<token>@github.com/<user>/<repo>.git
remote_url == <<"https", "://", "token", "@", "github.com/u/r">>

\* URLs an existing origin can have
OriginUrls ==
    { remote_url,
      <<"https", "://", "github.com/u/r">>,
      <<"https", "://", "old", "@", "github.com/u/r">>,
      <<"ssh", "://", "git", "@", "github.com/u/r">>,
      <<"git", "@", "github.com:u/r">>,
      <<"https", "://", "token", "@", "github.com/u/other">> }

Has(u, piece) == \E i \in DOMAIN u : u[i] = piece
FirstAt(u, piece) == CHOOSE i \in DOMAIN u : u[i] = piece /\ \A j \in 1..(i - 1) : u[j] # piece

\* url.split(piece, 1)[1]
AfterFirst(u, piece) == SubSeq(u, FirstAt(u, piece) + 1, Len(u))

\* _extract_repo_from_url: drop the scheme, then everything up to the first "@"
ExtractRepoFromUrl(u) ==
    LET a == IF Has(u, "://") THEN AfterFirst(u, "://") ELSE u
    IN  IF Has(a, "@") THEN AfterFirst(a, "@") ELSE a

\* _check_git_availability: <<state, commands, answer>>; the answer is cached
CheckGitAvailability(st) ==
    IF st.git_available # "unknown" THEN {<<st, <<>>, st.git_available = "yes">>}
    ELSE { <<[st EXCEPT !.git_available = IF o = "ok" THEN "yes" ELSE "no"],
             <<Cmd("version", o)>>, o = "ok">>
           : o \in {"ok", "fail"} }

\* git remote get-url origin / git remote add origin / git remote set-url origin
GetUrlOutcomes(st) == IF st.origin = NoUrl THEN {"fail"} ELSE {"ok", "fail"}
RemoteAddOutcomes(st) == IF st.origin = NoUrl THEN {"ok", "fail"} ELSE {"fail"}
SetUrlOutcomes == {"ok", "fail"}

\* a comparison of the URLs as they are written
NeedsSetUrlExact(current, expected) == current # expected

\* line 270: the remote is rewritten when the two URLs name different repositories
NeedsSetUrl(current, expected) == ExtractRepoFromUrl(current) # ExtractRepoFromUrl(expected)

\* _setup_remote: <<state, commands, result>>
SetupRemote(st) ==
    UNION {
        LET tr == <<Cmd("remote_get_url", g)>> IN
        IF g # "ok"
        THEN { <<IF a = "ok" THEN [st EXCEPT !.origin = remote_url] ELSE st,
                 Append(tr, Cmd("remote_add", a)), a = "ok">>
               : a \in RemoteAddOutcomes(st) }
        ELSE IF NeedsSetUrl(st.origin, remote_url)
        THEN { <<IF u = "ok" THEN [st EXCEPT !.origin = remote_url] ELSE st,
                 Append(tr, Cmd("remote_set_url", u)), u = "ok">>
               : u \in SetUrlOutcomes }
        ELSE {<<st, tr, TRUE>>}
        : g \in GetUrlOutcomes(st) }

\* .gitignore compared to the content rendered from the configuration:
\* "none" no file, "current" identical, "padded" identical up to leading and
\* trailing white space, "other" different
GitignoreStates == {"none", "current", "padded", "other"}

\* line 337: existing_content.strip() == new_content.strip()
GitignoreUpToDate(g) == g \in {"current", "padded"}

\* _create_gitignore: <<state, written, write failed>>; a failed write is
\* logged only (lines 354-355)
CreateGitignore(st) ==
    IF GitignoreUpToDate(st.gitignore) THEN {<<st, FALSE, FALSE>>}
    ELSE {<<[st EXCEPT !.gitignore = "current"], TRUE, FALSE>>, <<st, FALSE, TRUE>>}

SetupRes(st, r, tr, b, wrote, wfail) ==
    [setup |-> st, repo |-> r, trace |-> tr, div |-> NoReport, ret |-> b, wrote |-> wrote,
     write_failed |-> wfail]

\* _configure_git_user: the two results are looked at for the log only
ConfigureGitUser ==
    { <<Cmd("config_user_name", n), Cmd("config_user_email", e)>>
      : n \in {"ok", "fail"}, e \in {"ok", "fail"} }

\* a setup that gives up when git branch -M fails
BranchFailureFatal(o) == o # "ok"

\* lines 202-204: a failed git branch -M is a warning
BranchFailure(o) == FALSE

\* setup_repository, lines 206-214: identity, remote, .gitignore
SetupConfigure(st, r, tr) ==
    UNION {
        LET tr2 == tr \o id IN
        UNION {
            IF ~rm[3] THEN {SetupRes(rm[1], r, tr2 \o rm[2], FALSE, FALSE, FALSE)}
            ELSE { SetupRes(gi[1], IF gi[2] THEN [r EXCEPT !.dirty = TRUE] ELSE r,
                            tr2 \o rm[2], TRUE, gi[2], gi[3])
                   : gi \in CreateGitignore(rm[1]) }
            : rm \in SetupRemote(st) }
        : id \in ConfigureGitUser }

\* a check that never finds the repository
IsRepositoryNever(r) == FALSE

\* line 194: (self.vault_path / ".git").exists()
IsRepository(r) == r.gitDir

\* setup_repository, lines 194-204: git init and git branch -M when the
\* vault is not a repository yet
SetupInit(st, r, tr) ==
    IF IsRepository(r) THEN SetupConfigure(st, r, tr)
    ELSE UNION {
        IF i # "ok" THEN {SetupRes(st, r, Append(tr, Cmd("init", i)), FALSE, FALSE, FALSE)}
        ELSE UNION {
            LET tr2 == tr \o <<Cmd("init", i), Cmd("branch_M", b)>> IN
            IF BranchFailure(b) THEN {SetupRes(st, [r EXCEPT !.gitDir = TRUE], tr2, FALSE, FALSE, FALSE)}
            ELSE SetupConfigure(st, [r EXCEPT !.gitDir = TRUE], tr2)
            : b \in {"ok", "fail"} }
        : i \in {"ok", "fail"} }

\* GitManager.setup_repository: every result it can end with
SetupRepository(st, r) ==
    UNION { IF ~av[3] THEN {SetupRes(av[1], r, av[2], FALSE, FALSE, FALSE)}
            ELSE SetupInit(av[1], r, av[2])
            : av \in CheckGitAvailability(st) }

(* ============================= VaultSync.run =========================== *)
(* run() is one thread: setup, then the poll loop of the configured mode.  *)
(* A handler invoked by the loop runs from its guard to its finally before *)
(* the loop goes on.                                                       *)

\* a handler invoked with the flag as it is: guard, assignment, try block
RunHandler(h, flag, r, b, now, ipd) ==
    IF Skips(flag)
    THEN {[repo |-> r, backup |-> b, outcome |-> "skipped", sent |-> <<>>,
           initial_pull_done |-> ipd, called |-> <<>>, flag |-> FlagAfterSkip(flag)]}
    ELSE {[repo |-> x.repo, backup |-> x.backup, outcome |-> x.outcome, sent |-> x.sent,
           initial_pull_done |-> x.initial_pull_done, called |-> x.called,
           flag |-> FlagAfter(x.outcome)]
          : x \in HandlerBody(h, r, b, now, ipd)}

\* the state a handler invocation leaves
Invoked(h, x) ==
    /\ repo' = x.repo
    /\ backup' = x.backup
    /\ initial_pull_done' = x.initial_pull_done
    /\ sync_in_progress' = x.flag
    /\ last' = Invocation(h, x.outcome, x.sent, x.called)

Prev == [handler |-> last.handler, outcome |-> last.outcome]

\* a KeyboardInterrupt raised inside a handler leaves the loop
LoopAfter(outcome) == IF outcome = "interrupted" THEN "interrupted" ELSE "polling"

\* a run() that goes on after a failed setup
LoopAfterSetupRegardless(b) == "entering"

\* run(), lines 167-170: if not self.git.setup_repository(): ... return
LoopAfterSetup(b) == IF b THEN "entering" ELSE "stopped"

\* what run() sees of its call of setup_repository: the result
SetupAnswer(x) == [NoSetupCall EXCEPT !.made = TRUE, !.ret = x.ret]

\* run(), lines 167-170: setup; a failed setup ends run()
RunSetup ==
    /\ loop = "off"
    /\ \E x \in SetupRepository(setup, repo) :
          /\ repo' = x.repo
          /\ setup' = x.setup
          /\ loop' = LoopAfterSetup(x.ret)
          /\ setup_calls' = <<setup_calls[2], SetupAnswer(x)>>
    /\ tick' = TickRec("setup", FALSE, obsidian_was_running, <<>>, FALSE, Prev)
    /\ UNCHANGED <<gitLog, backupVars, orchVars, cmdVars, monitor, boundary>>
    /\ UNCHANGED <<backup_calls, backup_log, check_log>>
    /\ UNCHANGED <<mode, obsidian_was_running, entry_pull_ok>>

\* _run_interval_mode, lines 204-209: the startup handler, then the timer;
\* _run_on_close_mode, lines 239-242: nothing before the loop
EnterMode ==
    /\ loop = "entering"
    /\ IF mode = "interval"
       THEN /\ repo.stash < MaxStash
            /\ \E x \in RunHandler("startup", sync_in_progress, repo, backup, clock,
                                   initial_pull_done) :
                  /\ Invoked("startup", x)
                  /\ loop' = LoopAfter(x.outcome)
                  /\ entry_pull_ok' = x.initial_pull_done
            /\ tick' = TickRec("entry", FALSE, obsidian_was_running, <<"startup">>, FALSE, Prev)
       ELSE /\ loop' = "polling"
            /\ tick' = TickRec("entry", FALSE, obsidian_was_running, <<>>, FALSE, Prev)
            /\ UNCHANGED <<repo, backup, initial_pull_done, sync_in_progress, last,
                           entry_pull_ok>>
    /\ UNCHANGED <<gitLog, clock, pc, handler, raced, setupVars, auxVars, mode,
                   obsidian_was_running>>

\* a handler run for every check that finds the application running
StartupDueWhileRunning(observed, was) == observed

\* lines 224 and 254: obsidian_running and not self._obsidian_was_running
StartupDue(observed, was) == observed /\ ~was

\* a handler run for every check that finds the application absent
ShutdownDueWhileAbsent(observed, was) == ~observed

\* line 258: not obsidian_running and self._obsidian_was_running
ShutdownDue(observed, was) == ~observed /\ was

\* an interval mode that pulls on every restart of the application
DueHandlerOnEveryRestart(m, observed, was, ipd) ==
    IF StartupDue(observed, was) THEN "startup"
    ELSE IF m # "interval" /\ ShutdownDue(observed, was) THEN "shutdown"
    ELSE "none"

\* the handler a presence check invokes, "none" if none
DueHandler(m, observed, was, ipd) ==
    IF m = "interval"
    THEN IF StartupDue(observed, was) /\ ipd THEN "startup" ELSE "none"
    ELSE IF StartupDue(observed, was) THEN "startup"
    ELSE IF ShutdownDue(observed, was) THEN "shutdown"
    ELSE "none"

\* a loop that never records what it observed
WasRunningAfterStale(observed, was) == was

\* lines 230 and 263: self._obsidian_was_running = obsidian_running
WasRunningAfter(observed, was) == observed

\* one presence check (lines 219-231, 249-264): is_running() answers
\* observed; _obsidian_was_running is updated after the handler returns
Check ==
    /\ loop = "polling"
    /\ \E observed \in BOOLEAN :
          LET h == DueHandler(mode, observed, obsidian_was_running, initial_pull_done) IN
          IF h = "none"
          THEN /\ obsidian_was_running' = WasRunningAfter(observed, obsidian_was_running)
               /\ tick' = TickRec("check", observed, obsidian_was_running, <<>>, FALSE, Prev)
               /\ UNCHANGED <<repo, backup, initial_pull_done, sync_in_progress, last, loop>>
          ELSE /\ h = "startup" => repo.stash < MaxStash
               /\ \E x \in RunHandler(h, sync_in_progress, repo, backup, clock,
                                      initial_pull_done) :
                     /\ Invoked(h, x)
                     /\ loop' = LoopAfter(x.outcome)
                     /\ obsidian_was_running' =
                            IF x.outcome = "interrupted" THEN obsidian_was_running
                            ELSE WasRunningAfter(observed, obsidian_was_running)
               /\ tick' = TickRec("check", observed, obsidian_was_running, <<h>>, FALSE, Prev)
    /\ UNCHANGED <<gitLog, clock, pc, handler, raced, setupVars, auxVars, mode, entry_pull_ok>>

\* schedule.run_pending() with the periodic job due (lines 209, 233)
Timer ==
    /\ loop = "polling"
    /\ mode = "interval"
    /\ \E x \in RunHandler("periodic", sync_in_progress, repo, backup, clock,
                           initial_pull_done) :
          /\ Invoked("periodic", x)
          /\ loop' = LoopAfter(x.outcome)
    /\ tick' = TickRec("timer", FALSE, obsidian_was_running, <<"periodic">>, FALSE, Prev)
    /\ UNCHANGED <<gitLog, clock, pc, handler, raced, setupVars, auxVars, mode,
                   obsidian_was_running, entry_pull_ok>>

\* the external interrupt signal arrives while the loop sleeps
Interrupt ==
    /\ loop = "polling"
    /\ loop' = "interrupted"
    /\ UNCHANGED <<gitVars, backupVars, orchVars, setupVars, auxVars>>
    /\ UNCHANGED <<mode, obsidian_was_running, tick, entry_pull_ok>>

\* the final push made on every interruption
FinalPushAlways(was) == TRUE

\* run(), line 187: if self._obsidian_was_running
FinalPushWanted(was) == was

\* run(), lines 183-198: except KeyboardInterrupt, then finally
Interrupted ==
    /\ loop = "interrupted"
    /\ IF FinalPushWanted(obsidian_was_running)
       THEN /\ \E x \in Push(repo) : repo' = x.repo
            /\ tick' = TickRec("final", FALSE, obsidian_was_running, <<>>, TRUE, Prev)
       ELSE /\ tick' = TickRec("final", FALSE, obsidian_was_running, <<>>, FALSE, Prev)
            /\ UNCHANGED repo
    /\ loop' = "stopped"
    /\ UNCHANGED <<gitLog, backupVars, orchVars, setupVars, auxVars, mode,
                   obsidian_was_running, entry_pull_ok>>

InitRun ==
    /\ InitGitIn({FoundRepo(g, n) : g \in BOOLEAN, n \in 0..1}) /\ InitBackup /\ InitOrchIdle /\ InitSetupFresh /\ InitRunOff /\ InitAux
    /\ mode \in {"interval", "on_close"}

NextRun ==
    \/ RunSetup \/ EnterMode \/ Check \/ Timer \/ Interrupt \/ Interrupted
    \/ LocalEdit

SpecRun == InitRun /\ [][NextRun]_vars

(* ========================= properties of run() ========================= *)

\* C13: in on-close mode a presence check invokes the startup handler
\* exactly when it observes the application running and the check before
\* did not, the shutdown handler exactly when it observes it absent and
\* the check before observed it running, and no handler when the two
\* observations agree; entering the mode invokes no handler.
C13_OnCloseTransitions ==
    mode = "on_close" =>
      /\ tick.kind = "check" =>
            /\ tick.invoked = <<"startup">> <=> (tick.observed /\ ~tick.was)
            /\ tick.invoked = <<"shutdown">> <=> (~tick.observed /\ tick.was)
            /\ tick.observed = tick.was => tick.invoked = <<>>
      /\ tick.kind = "entry" => (tick.invoked = <<>> /\ last = NoInvocation)

C13_Witness ==
    /\ mode = "on_close" /\ tick.kind = "check"
    /\ tick.invoked = <<"shutdown">> /\ tick.was /\ ~tick.observed
    /\ last.handler = "shutdown" /\ last.called = <<Step("push", TRUE)>>

\* C14 (as claimed): entering interval mode invokes the startup handler
\* once; afterwards a presence check that observes a false->true
\* transition invokes the startup handler exactly when the pull made on
\* entry had succeeded.
C14_RepullOnceEntryPullSucceeded ==
    mode = "interval" =>
      /\ tick.kind = "entry" => tick.invoked = <<"startup">>
      /\ (tick.kind = "check" /\ tick.observed /\ ~tick.was)
            => (tick.invoked = <<"startup">> <=> entry_pull_ok)

\* C16 (as claimed): an interruption of the loop in interval mode is
\* followed by a final push before run() returns.
C16_FinalPushInIntervalMode ==
    (mode = "interval" /\ tick.kind = "final") => tick.finalPush

\* C16 (amended): when the loop is interrupted, in either mode, run()
\* makes a final push exactly when the last completed presence check had
\* observed the application running, and then returns.
C16_FinalPushIfWasRunning ==
    tick.kind = "final" =>
      /\ tick.finalPush <=> tick.was
      /\ loop = "stopped"

C16_Witness ==
    /\ mode = "interval" /\ tick.kind = "final" /\ loop = "stopped"
    /\ tick.was /\ tick.finalPush

\* C17 (as claimed): after a startup or shutdown handler whose pull or
\* push returned False, the next presence check invokes the same handler
\* again although it observes no presence transition.
C17_NextCycleRetries ==
    (/\ tick.kind = "check"
     /\ tick.prev.outcome = "failed"
     /\ tick.prev.handler \in {"startup", "shutdown"}
     /\ tick.observed = tick.was)
    => tick.invoked = <<tick.prev.handler>>

\* C17 (amended): no handler calls pull() or push() twice; a presence check
\* invokes a handler only on a presence transition, whatever the handler
\* before returned; a failed periodic push is attempted again by the next
\* timer tick of interval mode, which always runs the periodic handler.
C17_RetryOnlyOnTransitionOrTimer ==
    /\ \A i, j \in DOMAIN last.called : last.called[i].op = last.called[j].op => i = j
    /\ (tick.kind = "check" /\ tick.invoked # <<>>) => tick.observed # tick.was
    /\ tick.kind = "timer"
          => /\ tick.invoked = <<"periodic">>
             /\ last.handler = "periodic" /\ last.outcome # "skipped"

C17_Witness ==
    /\ tick.kind = "timer"
    /\ tick.prev = [handler |-> "periodic", outcome |-> "failed"]
    /\ last.handler = "periodic" /\ last.called = <<Step("push", TRUE)>>

(* ==================== GitManager: the command runner =================== *)
(* _run_command_sync takes _command_lock around subprocess.run;            *)
(* _run_command_async runs _run_command_sync on the one worker of a        *)
(* ThreadPoolExecutor and waits for it, at most for the timeout, inside    *)
(* the executor's with block.                                              *)

\* GitCommandResult: success = (returncode == 0)
GitCommandResult(rc) == [returncode |-> rc, success |-> (rc = 0), returned |-> TRUE]

\* a timeout reported like any other failed command
TimeoutCodeGeneric == GitCommandResult(1).returncode

\* lines 135 and 157: the exit code of a result made up for a timeout
TimeoutCode == 124

\* how subprocess.run ends: exit status 0, exit status 1, TimeoutExpired,
\* any other exception
RunOutcomes == {"exit0", "exit1", "timeout", "exception"}

\* lines 112, 135, 140: the result _run_command_sync builds
ResultOf(o) ==
    IF o = "exit0" THEN GitCommandResult(0)
    ELSE IF o = "timeout" THEN GitCommandResult(TimeoutCode)
    ELSE GitCommandResult(1)

\* the result an invocation hands to its caller, with how subprocess.run
\* ended and whether future.result had timed out before
Handed(res, o, late) ==
    [returncode |-> res.returncode, success |-> res.success, returned |-> res.returned,
     ended |-> o, async_timeout |-> late]

\* the lock released by hand after subprocess.run returned
ReleasedOnReturnOnly(o) == o \in {"exit0", "exit1"}

\* line 95: with self._command_lock releases on return and on exception
Released(o) == TRUE

\* a caller enters _run_command_sync
CallSync(c) ==
    /\ cmd[c].pc = "idle"
    /\ cmd' = [cmd EXCEPT ![c] = [variant |-> "sync", pc |-> "acquire", wait |-> "none"]]
    /\ result' = [result EXCEPT ![c] = NoResult]
    /\ UNCHANGED command_lock

\* a caller enters _run_command_async: the worker starts _run_command_sync,
\* the caller waits in future.result (lines 147-152)
CallAsync(c) ==
    /\ cmd[c].pc = "idle"
    /\ cmd' = [cmd EXCEPT ![c] = [variant |-> "async", pc |-> "acquire", wait |-> "result"]]
    /\ result' = [result EXCEPT ![c] = NoResult]
    /\ UNCHANGED command_lock

\* line 95: the lock is taken when it is free
Acquire(c) ==
    /\ cmd[c].pc = "acquire"
    /\ command_lock = Free
    /\ command_lock' = c
    /\ cmd' = [cmd EXCEPT ![c].pc = "run"]
    /\ UNCHANGED result

\* lines 154-157: future.result timed out; the caller has its result and
\* leaves the with block, which waits for the worker
AsyncTimeout(c) ==
    /\ cmd[c].variant = "async"
    /\ cmd[c].wait = "result"
    /\ cmd[c].pc \in {"acquire", "run"}
    /\ cmd' = [cmd EXCEPT ![c].wait = "shutdown"]
    /\ UNCHANGED <<command_lock, result>>

\* subprocess.run ends with outcome o; the invocation returns
Finish(c, o) ==
    /\ cmd[c].pc = "run"
    /\ command_lock' = IF Released(o) THEN Free ELSE command_lock
    /\ result' = [result EXCEPT ![c] =
                      IF cmd[c].wait = "shutdown" THEN Handed(GitCommandResult(TimeoutCode), o, TRUE)
                      ELSE Handed(ResultOf(o), o, FALSE)]
    /\ cmd' = [cmd EXCEPT ![c] = IdleCmd]

InitCommands ==
    /\ InitGit /\ InitBackup /\ InitOrchIdle /\ InitSetupFresh /\ InitRunOff
    /\ mode = "on_close"
    /\ InitAux

NextCommands ==
    /\ \/ \E c \in CmdCallers : CallSync(c)
       \/ \E c \in CmdCallers : CallAsync(c)
       \/ \E c \in CmdCallers : Acquire(c)
       \/ \E c \in CmdCallers : AsyncTimeout(c)
       \/ \E c \in CmdCallers : \E o \in RunOutcomes : Finish(c, o)
    /\ UNCHANGED <<gitVars, backupVars, orchVars, setupVars, runVars, monitor, boundary, logVars>>

SpecCommands == InitCommands /\ [][NextCommands]_vars

\* the callers whose external command is executing
Executing == {c \in CmdCallers : cmd[c].pc = "run"}

\* C20: at most one external command is executing at any time, the lock is
\* held exactly while one is, and it is free whenever no invocation of
\* either variant is in progress, whether the last command ended by
\* returning, by timing out or by an exception.
C20_CommandsSerialized ==
    /\ Cardinality(Executing) <= 1
    /\ command_lock # Free <=> Executing = {command_lock}
    /\ (\A c \in CmdCallers : cmd[c].pc = "idle") => command_lock = Free

C20_Witness ==
    \E c, d \in CmdCallers :
       /\ c # d
       /\ cmd[c].pc = "run" /\ cmd[c].variant = "sync"
       /\ cmd[d].pc = "acquire" /\ cmd[d].variant = "async"
       /\ result[c] = NoResult /\ command_lock = c

(* ============================ ProcessMonitor =========================== *)

\* a handler that returns False and records nothing
OnErrorRecordNothing(m, t) == m

\* lines 82-83: the handler of is_running records False at the current time
OnError(m, t) == [m EXCEPT !.last_check_result = FALSE, !.last_check_time = t]

\* a result cache that is still used when exactly the cache duration has passed
CacheFreshInclusive(m, t) == t - m.last_check_time <= check_cache_duration

\* line 34: the last result is recent enough to be returned as it is
CacheFresh(m, t) == t - m.last_check_time < check_cache_duration

\* ProcessMonitor.is_running at time t, where validation of the cached pids
\* leaves alive, a full scan finds found, and err says that an OS query
\* raised inside the try block: the monitor afterwards, the answer, whether
\* the OS was queried and whether the process table was scanned
IsRunning(m, t, alive, found, err) ==
    IF CacheFresh(m, t)
    THEN [monitor |-> m, ret |-> m.last_check_result, queried |-> FALSE, scanned |-> FALSE]
    ELSE IF err
    THEN [monitor |-> OnError(m, t), ret |-> FALSE, queried |-> TRUE, scanned |-> FALSE]
    ELSE IF m.cached_pids # {} /\ alive # {}
    THEN [monitor |-> [m EXCEPT !.cached_pids = alive, !.last_check_result = TRUE,
                                !.last_check_time = t],
          ret |-> TRUE, queried |-> TRUE, scanned |-> FALSE]
    ELSE LET cleared == [m EXCEPT !.cached_pids = {}]
             should_full_scan ==
                 cleared.cached_pids = {} \/ t - m.last_full_scan > full_scan_interval
             scan == [cleared EXCEPT !.last_full_scan = t]
         IN  IF should_full_scan /\ found # {}
             THEN [monitor |-> [scan EXCEPT !.cached_pids = found, !.last_check_result = TRUE,
                                            !.last_check_time = t],
                   ret |-> TRUE, queried |-> TRUE, scanned |-> TRUE]
             ELSE [monitor |-> [(IF should_full_scan THEN scan ELSE cleared)
                                EXCEPT !.last_check_result = FALSE, !.last_check_time = t],
                   ret |-> FALSE, queried |-> TRUE, scanned |-> should_full_scan]

(* ================ the public operations seen by their caller =========== *)

\* what can go wrong inside an operation besides the failures it tests
\* for: an exception of class Exception, or KeyboardInterrupt
Faults == {"none", "exception", "interrupt"}

\* an operation with no handler of its own
CaughtNever(fault) == FALSE

\* except Exception: KeyboardInterrupt is not an Exception
Caught(fault) == fault = "exception"

\* how a call comes back: normal is what the operation's body can end
\* with, left the states a fault can leave behind (for the operations of
\* GitManager the fault is raised before the first command changes anything)
Back(st, b, returned) == [st |-> st, ret |-> b, returned |-> returned]
Guarded(fault, normal, left) ==
    IF fault = "none" THEN {Back(x.st, x.ret, TRUE) : x \in normal}
    ELSE IF Caught(fault) THEN {Back(st, FALSE, TRUE) : st \in left}
    ELSE {Back(st, FALSE, FALSE) : st \in left}

Called(op, fault, y) ==
    /\ boundary.n < MaxOps
    /\ boundary' = Call(op, fault, y.returned, y.ret, boundary.n + 1)

\* GitManager.setup_repository: a fault inside _check_git_availability is
\* caught there (lines 77-81), one after it by setup_repository (216-219)
OpSetup ==
    /\ \E f \in Faults :
         \E y \in Guarded(f, {[st |-> <<x.setup, x.repo>>, ret |-> x.ret]
                               : x \in SetupRepository(setup, repo)},
                          {<<[setup EXCEPT !.git_available = IF @ = "unknown" THEN "no" ELSE @],
                             repo>>}) :
            /\ Called("setup_repository", f, y)
            /\ setup' = y.st[1]
            /\ repo' = y.st[2]
    /\ UNCHANGED <<gitLog, backupVars, orchVars, runVars, cmdVars, monitor, logVars>>

\* GitManager.pull, lines 485-611
OpPull ==
    /\ repo.stash < MaxStash
    /\ \E f \in Faults :
         \E y \in Guarded(f, {[st |-> x.repo, ret |-> x.ret] : x \in Pull(repo)},
                          {repo}) :
            /\ Called("pull", f, y)
            /\ repo' = y.st
    /\ UNCHANGED <<gitLog, backupVars, orchVars, setupVars, runVars, cmdVars, monitor, logVars>>

\* GitManager.push, lines 617-769
OpPush ==
    /\ repo.stash < MaxStash
    /\ \E f \in Faults :
         \E y \in Guarded(f, {[st |-> x.repo, ret |-> x.ret] : x \in Push(repo)},
                          {repo}) :
            /\ Called("push", f, y)
            /\ repo' = y.st
    /\ UNCHANGED <<gitLog, backupVars, orchVars, setupVars, runVars, cmdVars, monitor, logVars>>

\* GitManager.sync, lines 774-790
OpSync ==
    /\ repo.stash < MaxStash
    /\ \E f \in Faults :
         \E y \in Guarded(f, {[st |-> x.repo, ret |-> x.ret] : x \in Sync(repo)},
                          {repo}) :
            /\ Called("sync", f, y)
            /\ repo' = y.st
    /\ UNCHANGED <<gitLog, backupVars, orchVars, setupVars, runVars, cmdVars, monitor, logVars>>

\* BackupManager.create_backup: nothing can go wrong before the try block
\* (lines 41-55); the finally clause clears the flag this call set
OpCreateBackup ==
    /\ \E f \in Faults :
         /\ f # "none" => backup.enabled /\ ~backup.in_progress
         /\ \E y \in Guarded(f, {[st |-> x.backup, ret |-> x.ret]
                                  : x \in CreateBackup(backup, clock)},
                             {backup} \cup
                             {[backup EXCEPT !.snapshots = @ \cup {clock}]}) :
              /\ Called("create_backup", f, y)
              /\ backup' = y.st
    /\ UNCHANGED <<gitVars, clock, orchVars, setupVars, runVars, cmdVars, monitor, logVars>>

\* ProcessMonitor.is_running: an exception inside the try block takes
\* lines 78-84; an answer from the result cache queries nothing
OpIsRunning ==
    /\ \E f \in Faults, alive \in SUBSET monitor.cached_pids, found \in SUBSET Pids :
         LET t == StartTime + clock
             x == IsRunning(monitor, t, alive, found, f = "exception")
         IN  /\ f # "none" => x.queried
             /\ \E y \in Guarded(f, {[st |-> x.monitor, ret |-> x.ret]}, {x.monitor}) :
                  /\ Called("is_running", f, y)
                  /\ monitor' = IF y.returned THEN y.st ELSE monitor
    /\ UNCHANGED <<gitVars, backupVars, orchVars, setupVars, runVars, cmdVars, logVars>>

InitBoundaryCalls ==
    /\ InitGit /\ InitBackup /\ InitOrchIdle /\ InitSetupFresh /\ InitRunOff
    /\ mode = "on_close"
    /\ InitAux

NextBoundary ==
    \/ OpSetup
    \/ OpPull
    \/ OpPush
    \/ OpSync
    \/ OpCreateBackup
    \/ OpIsRunning
    \/ LocalEdit
    \/ Tick

SpecBoundary == InitBoundaryCalls /\ [][NextBoundary]_vars

PublicOperations ==
    {"setup_repository", "pull", "push", "sync", "create_backup", "is_running"}

\* C19: every call of a public operation returns a boolean to its caller,
\* whatever the external commands and OS queries it makes answer, and an
\* exception raised inside it is turned into the answer false; only the
\* interrupt signal (KeyboardInterrupt), which run() waits for, leaves an
\* operation without a return value.
C19_OperationsReturnBooleans ==
    boundary.op \in PublicOperations =>
       /\ boundary.fault # "interrupt" => boundary.returned /\ boundary.ret \in BOOLEAN
       /\ boundary.fault = "exception" => boundary.ret = FALSE

C19_Witness ==
    /\ boundary.op = "is_running"
    /\ boundary.fault = "exception"
    /\ boundary.returned /\ ~boundary.ret
    /\ monitor.last_check_time = StartTime + clock
    /\ monitor.cached_pids # {}

\* C21: a command that exceeds its timeout, in _run_command_sync or through
\* the wait of _run_command_async, comes back as a result with exit code
\* 124 and success false, and in every result success holds exactly when
\* the exit code is 0.
C21_TimeoutIsExitCode124 ==
    \A c \in CmdCallers :
       result[c].returned =>
          /\ result[c].success <=> result[c].returncode = 0
          /\ (result[c].ended = "timeout" \/ result[c].async_timeout) =>
                result[c].returncode = 124 /\ ~result[c].success

C21_Witness ==
    \E c, d \in CmdCallers :
       /\ result[c].returned /\ result[c].async_timeout /\ result[c].ended = "exit0"
       /\ result[c].returncode = 124
       /\ result[d].returned /\ result[d].ended = "timeout" /\ ~result[d].async_timeout
       /\ result[d].returncode = 124

(* ===================== setup_repository called twice =================== *)

\* the names of the commands in a log
IssuedIn(tr) == {tr[i].c : i \in DOMAIN tr}

SetupCall(x) ==
    [made |-> TRUE, ret |-> x.ret, issued |-> IssuedIn(x.trace),
     answered |-> (\E i \in DOMAIN x.trace : x.trace[i] = Cmd("remote_get_url", "ok")),
     wrote |-> x.wrote, origin |-> x.setup.origin, gitignore |-> x.setup.gitignore,
     failed |-> {x.trace[i].c : i \in {j \in DOMAIN x.trace : x.trace[j].r = "fail"}}
                \cup (IF x.write_failed THEN {"write_gitignore"} ELSE {})]

\* setup_repository called; the call before it is kept for comparison
DoSetup ==
    /\ \E x \in SetupRepository(setup, repo) :
          /\ repo' = x.repo
          /\ setup' = x.setup
          /\ setup_calls' = <<setup_calls[2], SetupCall(x)>>
    /\ UNCHANGED <<gitLog, backupVars, orchVars, runVars, cmdVars, monitor, boundary>>
    /\ UNCHANGED <<backup_calls, backup_log, check_log>>

\* the vault as the program can find it: a repository or not, any origin,
\* any .gitignore
InitSetupCalls ==
    /\ InitGit /\ InitBackup /\ backup.enabled /\ InitOrchIdle /\ InitRunOff
    /\ mode = "on_close"
    /\ InitAux
    /\ setup \in {[git_available |-> "unknown", origin |-> u, gitignore |-> g]
                  : u \in OriginUrls \cup {NoUrl}, g \in GitignoreStates}
    /\ (setup.origin # NoUrl => repo.gitDir)

NextSetupCalls == DoSetup

SpecSetupCalls == InitSetupCalls /\ [][NextSetupCalls]_vars

ChangesIssued == {"init", "remote_add", "remote_set_url"}

\* the second of two calls in a row changed nothing and tried nothing
SecondCallIdle ==
    /\ setup_calls[2].issued \cap ChangesIssued = {}
    /\ ~setup_calls[2].wrote
    /\ setup_calls[2].origin = setup_calls[1].origin
    /\ setup_calls[2].gitignore = setup_calls[1].gitignore

OtherEntries == {Entry(TRUE, -1), Entry(FALSE, -2)}

\* the callers inside the body
InBackupBody == {c \in BackupCallers : backup_calls[c].pc = "body"}

\* the flag taken without looking at it again
RecheckSkipped(flag) == FALSE

\* lines 51-53: if self._backup_in_progress: return False, under the lock
Recheck(flag) == flag

\* a call that returned: what it answered and what the directory was
\* before and after
BackupReturned(c, how, ok, t, b, P, R) ==
    backup_log' = [caller |-> c, how |-> how, ret |-> ok, stamp |-> t,
                   inflight |-> (InBackupBody \ {c} # {}),
                   before |-> Listing(backup), after |-> Listing(b),
                   popped |-> P, removed |-> R]

\* lines 41-48: disabled, or the flag is seen set, or on to the lock
BackupCall(c) ==
    /\ backup_calls[c].pc = "idle"
    /\ IF ~backup.enabled
       THEN /\ BackupReturned(c, "disabled", TRUE, clock, backup, {}, {})
            /\ UNCHANGED backup_calls
       ELSE IF backup.in_progress
       THEN /\ BackupReturned(c, "busy", FALSE, clock, backup, {}, {})
            /\ UNCHANGED backup_calls
       ELSE /\ backup_calls' = [backup_calls EXCEPT ![c].pc = "enter"]
            /\ UNCHANGED backup_log
    /\ UNCHANGED <<gitVars, backupVars, orchVars, setupVars, runVars, cmdVars, monitor, boundary>>
    /\ UNCHANGED <<setup_calls, check_log>>

\* lines 50-55: with self._backup_lock: check again, set the flag
BackupEnter(c) ==
    /\ backup_calls[c].pc = "enter"
    /\ IF Recheck(backup.in_progress)
       THEN /\ BackupReturned(c, "busy", FALSE, clock, backup, {}, {})
            /\ backup_calls' = [backup_calls EXCEPT ![c] = IdleBackupCall]
            /\ UNCHANGED backup
       ELSE /\ backup' = [backup EXCEPT !.in_progress = TRUE]
            /\ backup_calls' = [backup_calls EXCEPT ![c] = [pc |-> "body", stamp |-> clock]]
            /\ UNCHANGED backup_log
    /\ UNCHANGED <<gitVars, clock, orchVars, setupVars, runVars, cmdVars, monitor, boundary>>
    /\ UNCHANGED <<setup_calls, check_log>>

\* the flag cleared by the last statement of the try block only
InProgressAfterBodyNoFinally(how) == how # "ok"

\* lines 121-124: finally: with self._backup_lock: self._backup_in_progress = False
InProgressAfterBody(how) == FALSE

\* lines 57-124: the body, then finally: the flag is cleared
BackupFinish(c) ==
    /\ backup_calls[c].pc = "body"
    /\ \E x \in BackupBody(backup, backup_calls[c].stamp) :
          LET b == [x.backup EXCEPT !.in_progress = InProgressAfterBody(x.how)] IN
          /\ backup' = b
          /\ BackupReturned(c, x.how, x.ret, backup_calls[c].stamp, b, x.popped, x.removed)
    /\ backup_calls' = [backup_calls EXCEPT ![c] = IdleBackupCall]
    /\ UNCHANGED <<gitVars, clock, orchVars, setupVars, runVars, cmdVars, monitor, boundary>>
    /\ UNCHANGED <<setup_calls, check_log>>

\* the backup directory as the program can find it
InitBackupCalls ==
    /\ InitGit /\ repo.gitDir /\ InitOrchIdle /\ InitRest
    /\ clock = 0
    /\ backup \in {[enabled |-> e, in_progress |-> FALSE, snapshots |-> {}, others |-> o]
                   : e \in BOOLEAN, o \in SUBSET OtherEntries}

NextBackupCalls ==
    \/ \E c \in BackupCallers : BackupCall(c)
    \/ \E c \in BackupCallers : BackupEnter(c)
    \/ \E c \in BackupCallers : BackupFinish(c)
    \/ Tick

SpecBackupCalls == InitBackupCalls /\ [][NextBackupCalls]_vars

\* C23: whatever the interleaving of concurrent callers, at most one call
\* of create_backup is inside the copy/verify/prune body and the flag is
\* set exactly while one is; a call that finds another in flight returns
\* false and leaves the backup directory as it was.
C23_BackupMutualExclusion ==
    /\ Cardinality(InBackupBody) <= 1
    /\ backup.in_progress <=> InBackupBody # {}
    /\ backup_log.how = "busy" =>
          /\ ~backup_log.ret
          /\ backup_log.inflight
          /\ backup_log.after = backup_log.before

C23_Witness ==
    /\ backup_log.how = "busy" /\ backup_log.inflight
    /\ \E c \in BackupCallers : backup_calls[c].pc = "body" /\ c # backup_log.caller
    /\ backup.snapshots # {}

\* the timestamp-named snapshots in a listing, and the max_backups most
\* recent of a set of timestamps
SnapshotsIn(L) == {e.suffix : e \in {x \in L : x.prefixed /\ x.suffix >= 0}}
MostRecent(S) == {t \in S : Cardinality({u \in S : u > t}) < max_backups}

\* after the last call: at most max_backups snapshots, and exactly the most
\* recent ones of those that were there plus the new one
RetentionHolds ==
    /\ Cardinality(SnapshotsIn(backup_log.after)) <= max_backups
    /\ SnapshotsIn(backup_log.after)
          = MostRecent(SnapshotsIn(backup_log.before) \cup {backup_log.stamp})
    /\ backup_log.stamp \in SnapshotsIn(backup_log.after)

C29_FailedBackupChangesNothing ==
    backup_log.how # "none" /\ ~backup_log.ret => backup_log.after = backup_log.before

\* C30: no call of create_backup() removes an entry of the backup
\* directory whose name is not vault_backup_<timestamp>, and pruning pops
\* the oldest timestamps first.
C30_PruningSparesOtherNames ==
    [][ /\ backup.others \subseteq backup'.others
        /\ \A t \in backup_log'.popped :
              \A u \in SnapshotsIn(backup_log'.after) \ backup_log'.removed :
                 u \in backup_log'.popped \/ t < u ]_vars

C30_Witness ==
    /\ backup_log.how = "ok" /\ backup_log.removed # {}
    /\ Entry(TRUE, -1) \in backup.others
    /\ Entry(TRUE, -1) \in backup_log.before

(* ===================== ProcessMonitor polled over time ================= *)

\* what can go wrong with the OS queries of one call: a psutil error on a
\* cached pid (swallowed at line 103, the pid is dropped), an exception
\* during the scan (swallowed at line 134, the pids found so far are
\* kept), or an exception that reaches the handler of is_running (line 78)
QueryErrors == {"none", "validate", "scan", "other"}

\* the pauses between two calls
WaitSteps == {1, check_cache_duration, full_scan_interval + 1}

\* a pause shorter than the rescan interval is followed only while the
\* result cache of the last call has not expired
Wait(d) ==
    /\ clock + d <= MaxWait
    /\ d <= full_scan_interval =>
          StartTime + clock - monitor.last_check_time < check_cache_duration
    /\ clock' = clock + d
    /\ UNCHANGED <<gitVars, backup, orchVars, restVars>>

\* is_running called at the current time
MonitorCall ==
    /\ \E kind \in QueryErrors, alive \in SUBSET monitor.cached_pids, found \in SUBSET Pids :
         LET t == StartTime + clock
             x == IsRunning(monitor, t, alive, found, kind = "other")
         IN  /\ kind = "validate" => alive # monitor.cached_pids /\ x.queried
             /\ kind = "scan" => x.scanned
             /\ kind = "other" => x.queried
             /\ monitor' = x.monitor
             /\ check_log' = [made |-> TRUE, ret |-> x.ret, queried |-> x.queried,
                              scanned |-> x.scanned, error |-> kind, at |-> t,
                              survivors |-> IF x.queried THEN alive ELSE {},
                              found |-> IF x.scanned THEN found ELSE {},
                              cached |-> monitor.cached_pids,
                              since_scan |-> t - monitor.last_full_scan,
                              evaluated |-> check_log.evaluated \/ x.queried,
                              eval_at |-> IF x.queried THEN t ELSE check_log.eval_at,
                              eval_ret |-> IF x.queried THEN x.ret ELSE check_log.eval_ret]
    /\ UNCHANGED <<gitVars, backupVars, orchVars, setupVars, runVars, cmdVars, boundary>>
    /\ UNCHANGED <<setup_calls, backup_calls, backup_log>>

InitMonitorPolled ==
    /\ InitGit /\ repo.gitDir /\ InitBackup /\ backup.enabled /\ InitOrchIdle /\ InitRest

NextMonitorPolled ==
    \/ MonitorCall
    \/ \E d \in WaitSteps : Wait(d)

SpecMonitorPolled == InitMonitorPolled /\ [][NextMonitorPolled]_vars

\* C25 as stated: a call of is_running() that queries the OS scans the
\* process table, and stores what it found as the cached pids, whenever no
\* cached pid survives validation or more than full_scan_interval seconds
\* have passed since the last scan, also when cached pids are still valid.
C25_RescanAfterInterval ==
    /\ check_log.made /\ check_log.queried /\ check_log.error = "none"
    /\ check_log.survivors = {} \/ check_log.since_scan > full_scan_interval
    => check_log.scanned /\ monitor.cached_pids = check_log.found

\* C26 as stated: whatever OS query fails during a call of is_running()
\* that is not answered from the result cache, the call returns false and
\* records false with the current time.
C26_AnyErrorYieldsFalse ==
    check_log.made /\ check_log.queried /\ check_log.error # "none" =>
       /\ ~check_log.ret
       /\ ~monitor.last_check_result
       /\ monitor.last_check_time = check_log.at

\* C26: an exception that reaches the handler of is_running() makes the
\* call return false and record false with the current time; an error
\* swallowed while validating a cached pid or while scanning only drops the
\* processes concerned, and the call answers from those that remain, true
\* included, recording its answer with the current time.
C26_HandledErrorYieldsFalse ==
    /\ check_log.made /\ check_log.queried /\ check_log.error = "other" =>
          /\ ~check_log.ret
          /\ ~monitor.last_check_result
          /\ monitor.last_check_time = check_log.at
    /\ check_log.made /\ check_log.queried /\ check_log.error \in {"validate", "scan"} =>
          /\ check_log.ret <=> (check_log.survivors # {} \/ check_log.found # {})
          /\ monitor.last_check_result = check_log.ret
          /\ monitor.last_check_time = check_log.at

C26_Witness ==
    /\ check_log.made /\ check_log.queried /\ check_log.error = "other"
    /\ check_log.cached # {} /\ check_log.at > StartTime
    /\ monitor.last_check_time = check_log.at /\ ~monitor.last_check_result

(* ======================= failures inside pull() ======================== *)

\* C27 as stated: a pull() whose remote-branch query failed, or whose fetch
\* failed for another reason than a missing remote ref, returns False.
C27_RemoteFailureAbortsPull ==
    (lastOp = "pull" /\ (IssuedWith("ls_remote", "fail") \/ IssuedWith("fetch", "fail")))
    => ret = FALSE

\* C28: a pull() whose integration command failed returns False; if it had
\* stashed it issues exactly one stash pop, after the integration command,
\* and otherwise none; when the failure carries the conflict signal a
\* rebase --abort is issued after the integration command and before that
\* stash pop.
C28_FailedIntegrationRestores ==
    lastOp = "pull" =>
      \A i \in IntegrationAt :
         trace[i].r # "ok" =>
            /\ ret = FALSE
            /\ IssuedWith("stash_push", "ok") =>
                  /\ Cardinality(At("stash_pop")) = 1
                  /\ \A j \in At("stash_pop") : j > i
            /\ ~IssuedWith("stash_push", "ok") => At("stash_pop") = {}
            /\ trace[i].r = "conflict" =>
                  \E k \in At("rebase_abort") :
                     k > i /\ \A j \in At("stash_pop") : k < j

C28_Witness ==
    /\ lastOp = "pull" /\ ret = FALSE
    /\ IssuedWith("stash_push", "ok")
    /\ IssuedWith("pull_rebase", "conflict")
    /\ IssuedWith("rebase_abort", "ok")
    /\ trace[Len(trace)] = Cmd("stash_pop", "ok")

(* ======================= how setup resolves the remote ================= *)

\* the part of a URL after its scheme and its credentials
HostAndPath(u) == <<u[Len(u)]>>

\* a call of setup_repository that got as far as _setup_remote returns
SetupReachedRemote ==
    /\ setup_calls' # setup_calls
    /\ "remote_get_url" \in setup_calls'[2].issued

\* C31 as stated: a setup that reaches the remote step issues git remote add
\* exactly when there is no origin, and git remote set-url exactly when the
\* origin's host and path differ from the configured URL's.
C31_RemoteResolvedByOrigin ==
    [][SetupReachedRemote =>
        /\ ("remote_add" \in setup_calls'[2].issued <=> setup.origin = NoUrl)
        /\ ("remote_set_url" \in setup_calls'[2].issued
             <=> setup.origin # NoUrl /\ HostAndPath(setup.origin) # HostAndPath(remote_url))]_vars

\* C31: a setup that reaches the remote step issues git remote add exactly
\* when git remote get-url does not succeed, which it never does without an
\* origin; when get-url answers, it issues git remote set-url exactly when
\* the origin's host and path differ from the configured URL's, and no
\* remote command when they differ in scheme or credentials only.
C31_RemoteResolvedByGetUrl ==
    [][SetupReachedRemote =>
        /\ ("remote_add" \in setup_calls'[2].issued <=> ~setup_calls'[2].answered)
        /\ (setup.origin = NoUrl => ~setup_calls'[2].answered)
        /\ ("remote_set_url" \in setup_calls'[2].issued
             <=> setup_calls'[2].answered
                 /\ HostAndPath(setup.origin) # HostAndPath(remote_url))]_vars

\* an origin with other credentials and another scheme was left alone
C31_Witness ==
    /\ setup_calls[2].made /\ setup_calls[2].answered
    /\ setup_calls[2].issued \cap {"remote_add", "remote_set_url"} = {}
    /\ setup_calls[2].origin = <<"ssh", "://", "git", "@", "github.com/u/r">>
    /\ setup_calls[2].ret

(* ========================= when setup fails ============================ *)

\* the steps whose failure setup_repository answers with False
FatalSteps == {"version", "init", "remote_add", "remote_set_url"}

\* the steps whose failure is logged and passed over
TolerableSteps == {"branch_M", "config_user_name", "config_user_email", "write_gitignore"}

\* C32: setup_repository returns False exactly when git is unavailable or
\* git init, git remote add or git remote set-url fails, whatever becomes of
\* git branch -M, the two git config commands and the write of .gitignore;
\* both git config commands are issued by every call that finds git and a
\* repository, initialised by it or before it.
C32_SetupFailsOnFatalStepsOnly ==
    setup_calls[2].made =>
      LET c == setup_calls[2] IN
      /\ (~c.ret <=> \/ c.failed \cap FatalSteps # {}
                     \/ (c.issued = {} /\ setup.git_available = "no"))
      /\ (setup.git_available = "yes" /\ "init" \notin c.failed
            => {"config_user_name", "config_user_email"} \subseteq c.issued)

\* a call that succeeded although the branch rename, the identity and the
\* write of .gitignore all failed
C32_Witness ==
    /\ setup_calls[2].made /\ setup_calls[2].ret
    /\ TolerableSteps \subseteq setup_calls[2].failed
    /\ {"config_user_name", "config_user_email"} \subseteq setup_calls[2].issued

(* ===================== the result cache of is_running ================== *)

\* the call of is_running that just returned was made less than the cache
\* duration after the last call that queried the OS
WithinCacheDuration ==
    check_log.evaluated /\ check_log'.at - check_log.eval_at < check_cache_duration

\* C33: a call of is_running() made less than check_cache_duration seconds
\* after the last call that queried the OS returns that call's answer,
\* queries nothing and changes nothing in the monitor; any other call
\* queries the OS; so every answer comes from a query less than
\* check_cache_duration seconds old.
C33_BoundedStaleness ==
    [][check_log' # check_log =>
        /\ WithinCacheDuration =>
              /\ ~check_log'.queried
              /\ check_log'.ret = check_log.eval_ret
              /\ monitor' = monitor
        /\ ~WithinCacheDuration => check_log'.queried
        /\ check_log'.at - check_log'.eval_at < check_cache_duration
        /\ check_log'.ret = check_log'.eval_ret]_vars

\* a call answered true from the result cache one second after a query,
\* at a time when a query has been made at the full cache duration before
C33_Witness ==
    /\ check_log.made /\ ~check_log.queried /\ check_log.ret
    /\ check_log.at = check_log.eval_at + 1
    /\ check_log.eval_at >= StartTime + check_cache_duration

(* ===================== what the handlers notify ======================== *)

\* the operation a handler notifies about
OperationOf(h) == IF h = "startup" THEN "pull" ELSE "push"

\* the handler that ended last got True back from its pull() or push()
OperationSucceeded ==
    \E i \in DOMAIN last.called : last.called[i] = Step(OperationOf(last.handler), TRUE)

\* the handler that ended last got an answer from its pull() or push()
OperationReturned ==
    \E i \in DOMAIN last.called : last.called[i].op = OperationOf(last.handler)

Executed == last.handler # "none" /\ last.outcome # "skipped"

\* C34 as stated: every handler that was not skipped calls
\* notification.send exactly once, with True exactly when its pull() or
\* push() returned True.
C34_NotifiedExactlyOnce ==
    Executed => Len(last.sent) = 1 /\ (last.sent[1] <=> OperationSucceeded)

\* C34: a handler whose try block ends without an exception calls
\* notification.send exactly once, with the value its pull() or push()
\* returned; one in which an Exception is raised ends with a call of
\* send(False), the only call when the operation itself raised and the
\* second one when the exception came after the first call; one that a
\* KeyboardInterrupt passes through makes no call after the interrupt, and
\* none at all when the interrupt came before the operation returned.
C34_NotifiedPerOutcome ==
    Executed =>
      /\ last.outcome \in {"ok", "failed"} =>
            /\ Len(last.sent) = 1 /\ OperationReturned
            /\ last.sent[1] <=> OperationSucceeded
            /\ last.sent[1] <=> last.outcome = "ok"
      /\ last.outcome = "raised" =>
            /\ Len(last.sent) \in {1, 2}
            /\ ~last.sent[Len(last.sent)]
            /\ ~OperationReturned => Len(last.sent) = 1
            /\ Len(last.sent) = 2 => OperationReturned /\ (last.sent[1] <=> OperationSucceeded)
      /\ last.outcome = "interrupted" =>
            /\ Len(last.sent) <= 1
            /\ ~OperationReturned => last.sent = <<>>
            /\ Len(last.sent) = 1 => (last.sent[1] <=> OperationSucceeded)

\* a startup handler whose pull raised: one notification of failure
C34_Witness ==
    /\ last.handler = "startup" /\ last.outcome = "raised"
    /\ last.sent = <<FALSE>>
    /\ last.called = <<Step("backup", TRUE)>>

(* ================== commits whose push failed ========================== *)

\* the operation that returned last was a push() that committed and whose
\* git push did not succeed
CommitLeftUnpushed ==
    /\ lastOp = "push"
    /\ IssuedWith("commit", "ok")
    /\ \E i \in DOMAIN trace : trace[i].c \in PushCmds /\ trace[i].r # "ok"

\* C35 as stated: a push() that follows a push() which committed but could
\* not push issues git push for that commit, also when the working tree has
\* not changed in between.
C35_UnpushedCommitIsPushedLater ==
    [][PushReturns /\ CommitLeftUnpushed /\ ~repo.dirty /\ repo.ahead > 0
         => \E i \in DOMAIN trace' : trace'[i].c \in PushCmds]_vars

(* ==================== the stash after a successful pull ================ *)

\* C36 as stated: a pull() that stashed returns True only if it popped the
\* stash again: when the integration succeeded and git stash pop failed,
\* with or without the word conflict in its output, pull() returns False.
C36_TrueOnlyIfStashRestored ==
    [][PullReturns /\ (\E i \in DOMAIN trace' : trace'[i] = Cmd("stash_push", "ok")) =>
         /\ ret' => repo'.stash = repo.stash
         /\ (/\ \E i \in DOMAIN trace' : trace'[i].c \in IntegrationCmds /\ trace'[i].r = "ok"
             /\ \E i \in DOMAIN trace' : trace'[i].c = "stash_pop" /\ trace'[i].r # "ok")
               => ~ret']_vars

(* ================= the order of handlers in on-close mode ============== *)

\* the last step of run() was a presence check of on-close mode that
\* invoked handler h
CheckInvoked(h) == mode = "on_close" /\ tick.kind = "check" /\ tick.invoked = <<h>>

\* C37: in on-close mode the handlers the poll loop invokes alternate,
\* beginning with the startup handler: a startup handler is the first
\* invocation or follows a shutdown handler, and a shutdown handler follows
\* a startup handler, whatever that one's pull came to.
C37_HandlersAlternate ==
    /\ CheckInvoked("startup") => tick.prev.handler \in {"none", "shutdown"}
    /\ CheckInvoked("shutdown") => tick.prev.handler = "startup"
    /\ mode = "on_close" => last.handler \in {"none", "startup", "shutdown"}

\* a shutdown handler invoked after a startup handler whose pull failed
C37_Witness ==
    /\ CheckInvoked("shutdown")
    /\ tick.prev = [handler |-> "startup", outcome |-> "failed"]
    /\ last.handler = "shutdown"

(* ============== interval mode after a failed pull on entry ============= *)

\* interval mode is past its entry and the startup handler run on entry
\* did not record a successful pull
EntryPullFailed ==
    mode = "interval" /\ loop \in {"polling", "interrupted", "stopped"} /\ ~entry_pull_ok

\* C38: in interval mode, once the startup handler run on entry has not
\* recorded a successful pull, no presence check invokes a handler, so
\* pull() is not called again in this run, and every timer tick invokes the
\* periodic handler, which is not skipped and calls push().
C38_NoPullAfterFailedEntry ==
    EntryPullFailed =>
      /\ ~initial_pull_done
      /\ tick.kind = "check" => tick.invoked = <<>> /\ last.handler # "shutdown"
      /\ tick.kind = "timer" =>
            /\ tick.invoked = <<"periodic">> /\ last.handler = "periodic"
            /\ last.outcome # "skipped"
            /\ last.outcome \in {"ok", "failed"} =>
                  last.called = <<Step("push", last.outcome = "ok")>>
      /\ tick.invoked = <<"startup">> => tick.kind = "entry"

\* the application is seen starting after the pull on entry returned
\* failure, and nothing is invoked
C38_Witness ==
    /\ EntryPullFailed /\ loop = "polling"
    /\ tick.kind = "check" /\ tick.observed /\ ~tick.was /\ tick.invoked = <<>>
    /\ last = Invocation("startup", "failed", <<FALSE>>, <<Step("backup", TRUE), Step("pull", FALSE)>>)

(* ================== nothing runs before a successful setup ============= *)

\* setup_repository returned True in this run
SetupSucceeded == setup_calls[2].made /\ setup_calls[2].ret

\* C39: in run() no handler is invoked, so no backup and no pull() or
\* push() is called, and no final push is made, unless setup_repository
\* returned True before; when it returns False, run() ends without
\* entering a mode.
C39_NothingBeforeSetup ==
    /\ ~SetupSucceeded =>
          /\ last = NoInvocation
          /\ ~tick.finalPush /\ tick.kind \in {"none", "setup"}
          /\ backup.snapshots = {}
          /\ loop \in {"off", "stopped"}
    /\ setup_calls[2].made /\ ~setup_calls[2].ret => loop = "stopped" /\ tick.kind = "setup"
    /\ loop \in {"entering", "polling", "interrupted"} => SetupSucceeded

\* run() has ended on a failed setup of a vault with local changes
C39_Witness ==
    /\ setup_calls[2].made /\ ~setup_calls[2].ret
    /\ loop = "stopped" /\ repo.gitDir /\ repo.dirty
    /\ last = NoInvocation

(* ================== the in-progress flag of the backups ================ *)

\* C40: _backup_in_progress is set exactly while a caller is inside the
\* body of create_backup: every way the body ends clears it, so a call is
\* answered "already in progress" only while another call is inside the
\* body, and that answer leaves the flag set for the call in flight.
C40_BackupFlagReleased ==
    /\ backup.in_progress <=> InBackupBody # {}
    /\ backup_log.how = "busy" => backup_log.inflight /\ backup.in_progress
    /\ backup_log.how \in {"missing", "exists", "copy_error", "unverified", "ok"}
          => ~backup_log.inflight

\* a body that ended on an exception of the copy left the flag clear, and
\* a later call has passed the test of the flag
C40_Witness ==
    /\ backup_log.how = "copy_error" /\ ~backup_log.ret
    /\ ~backup.in_progress
    /\ \E c \in BackupCallers : backup_calls[c].pc = "enter" /\ c # backup_log.caller

====
